---- MODULE Spec2Model ----
(***************************************************************************)
(* s3-balance: an S3-compatible gateway that presents virtual buckets and  *)
(* places every object on one of several real backends.                    *)
(*                                                                         *)
(* The module holds the state of the gateway (backend registry, mapping    *)
(* store, object records, upload sessions, balancer) and one action per    *)
(* handler step.  Handlers are cut at their database and backend calls, so *)
(* that concurrent requests interleave where the Go code lets them.        *)
(***************************************************************************)
EXTENDS Integers, Sequences, FiniteSets, TLC

(***************************************************************************)
(* Bounds of the model.                                                    *)
(***************************************************************************)
\* number of concurrent request tasks
NumProcs == 2
\* total number of requests the tasks start in one behaviour
MaxRequests == 3
\* total number of monitor reports (health, stats) in one behaviour
MaxReports == 2
\* largest Content-Length a request carries
MaxSize == 2
MaxUploads == 2

Procs == 1..NumProcs

(***************************************************************************)
(* Configuration (config.BucketConfig): one virtual bucket, two real       *)
(* backends.  "nx" is a bucket name that is not configured.                *)
(***************************************************************************)
VirtualBuckets == {"v1"}
RealBuckets == {"b1", "b2"}
Buckets == VirtualBuckets \cup RealBuckets
Keys == {"k1", "k2"}
Sizes == 1..MaxSize
UploadIds == 1..MaxUploads
NoBucket == "none"

\* BucketConfig.Virtual
Virtual(b) == b \in VirtualBuckets
\* BucketConfig.MaxSizeBytes; 0 = unlimited
MaxSizeBytes(b) == CASE b = "b1" -> 3 [] b = "b2" -> 2 [] OTHER -> 0
\* BucketConfig.Weight
Weight(b) == CASE b = "b1" -> 1 [] b = "b2" -> 2 [] OTHER -> 0
\* BucketConfig.OperationLimits.TypeA / TypeB; 0 = no limit
LimitA(b) == CASE b = "b1" -> 2 [] b = "b2" -> 3 [] OTHER -> 0
LimitB(b) == CASE b = "b1" -> 2 [] OTHER -> 0
Limit(b, cat) == IF cat = "A" THEN LimitA(b) ELSE LimitB(b)

\* the value GetAvailableSpace returns for an unlimited backend (1 << 62 in
\* the source; any value above every size of the model behaves the same)
UnlimitedSpace == 1000000

VARIABLES
    buckets,      \* Manager.buckets: name -> BucketInfo runtime state
    dbStats,      \* bucket_stats rows: name -> persisted operation counts
    mappings,     \* virtual_bucket_mappings rows, in insertion (id) order
    objects,      \* objects rows: key -> record or NoObject
    backend,      \* what the real backends store: <<bucket, key>> -> payload
    sessions,     \* upload_sessions rows: upload-id -> record or NoSession
    uploads,      \* multipart uploads on the backends: upload-id -> record or NoUpload
    strategy,     \* Balancer.strategy (its Name())
    rrCounter,    \* RoundRobinStrategy.counter
    ring,         \* ConsistentHashStrategy ring: the candidate list it was built from
    pc,           \* position of each request task in its handler
    req,          \* the request each task serves, and the handler's locals
    nreq,         \* requests started so far
    nrep,         \* monitor reports delivered so far
    lastStatus,   \* health.Monitor: the last probe result of each target
    config,       \* Manager.config: the active configuration
    table,        \* Manager.buckets: the names that have an entry
    monitors,     \* the health and stats monitors: "running" or "stopped"
    upd,          \* Manager.UpdateConfig: its position, calls so far, last result
    infoConfig,   \* BucketInfo.Config: the configuration each entry's copy was taken from
    clock,        \* time.Now(): the month, and whether it is the month's first day
    monthlyStats, \* bucket_monthly_stats rows: <<bucket, month>> -> class-A count or NoRow
    lastArchivedDate, \* MonthlyArchiver.lastArchivedDate (0 = "")
    archiver,     \* the process and its MonthlyArchiver: "up" or "down"
    performed,    \* history: the class-A operations performed per bucket and month
    now,          \* time.Now() in hours, as the session cleaner reads it
    expiresAt,    \* upload_sessions.expires_at: upload-id -> hour
    removed,      \* history: the real objects handleDeleteObject removed from a backend
    file,         \* the configuration file: the version it holds
    fsEvents,     \* fsnotify write events not yet received by watchConfig
    lastModTime,  \* config.Manager.lastModTime: the file version last noticed
    fileConfig,   \* config.Manager.config: the version last loaded
    reloader,     \* watchConfig and pollConfig: position in reloadConfig, loaded version
    callbacks,    \* the goroutines reloadConfig started: version and position
    applied,      \* the version the registry, the balancer and the handler were last given
    mainPc,       \* main: its position from the signal to its return
    http,         \* the HTTP server: "serving" or "closed"
    store,        \* the database handle: "open" or "closed"
    watcher       \* config.Manager's stopChan and fsnotify watcher: "open" or "closed"

\* the state of the configuration reload and of the monthly archive
managerVars == <<config, table, monitors, upd, infoConfig>>
archiveVars == <<clock, monthlyStats, lastArchivedDate, archiver, performed>>
\* the state the background tasks of main.go work on
watchVars == <<file, fsEvents, lastModTime, fileConfig, reloader, callbacks, applied>>
stopVars == <<mainPc, http, store, watcher>>
gatewayVars == <<now, expiresAt, removed, watchVars, stopVars>>

vars == <<buckets, dbStats, mappings, objects, backend, sessions, uploads,
          strategy, rrCounter, ring, pc, req, nreq, nrep, lastStatus,
          managerVars, archiveVars, gatewayVars>>

NoObject == [bucket |-> NoBucket, size |-> 0]
NoSession == [key |-> "", bucket |-> NoBucket, parts |-> 0, size |-> 0, status |-> "none"]
NoUpload == [bucket |-> NoBucket, key |-> "", parts |-> 0, size |-> 0, state |-> "none"]

(***************************************************************************)
(* Configurations the file watcher can hand to the gateway.  All of them   *)
(* list the same buckets in the same order; "c1" names another endpoint    *)
(* for b2 than "c0", "c2" differs from "c0" in the balancer's periods only.*)
(***************************************************************************)
Configs == {"c0", "c1", "c2"}

\* Config.Buckets: the list, every entry enabled
ConfigBuckets == <<"b1", "b2", "v1">>

\* BucketConfig.Endpoint of b2
Endpoint(c) == IF c = "c1" THEN "e1" ELSE "e0"

\* Manager.UpdateConfig's task: position, calls made, whether the last call
\* returned an error
IdleUpdate == [pc |-> "idle", calls |-> 0, err |-> FALSE]

\* NewManager and Manager.Start: all configured buckets in the table, the
\* monitors running
InitManager ==
    /\ config = "c0"
    /\ table = Buckets
    /\ monitors = "running"
    /\ upd = IdleUpdate
    /\ infoConfig = [b \in Buckets |-> "c0"]

(***************************************************************************)
(* Months are numbered; month 0 is the month before the first start.       *)
(***************************************************************************)
\* number of months the clock runs through
MaxMonths == 2
Months == 0..MaxMonths

\* no bucket_monthly_stats row for the bucket and month
NoRow == -1

\* the gateway running in month 1, nothing archived yet
InitArchiver ==
    /\ clock = [month |-> 1, first |-> FALSE]
    /\ monthlyStats = [bm \in Buckets \X Months |-> NoRow]
    /\ lastArchivedDate = 0
    /\ archiver = "up"
    /\ performed = [bm \in Buckets \X Months |-> 0]

(***************************************************************************)
(* Upload sessions expire.  Time is counted in hours and passes half a     *)
(* session lifetime at a time.                                             *)
(***************************************************************************)
\* half lifetimes the clock of the session cleaner runs through
MaxHalfDays == 3
\* hours a session lives (UploadSession.BeforeCreate)
SessionLifetime == 24

\* edits of the configuration file in one behaviour
MaxEdits == 2
\* the two goroutines that notice an edit
Watchers == {"fsnotify", "poll"}
\* an edit is noticed at most once by each of them
CallbackIds == 1..(2 * MaxEdits)
NoCallback == [cfg |-> 0, pc |-> "none"]

\* config.NewManager and main: version 0 loaded and given to every component
InitWatch ==
    /\ file = 0
    /\ fsEvents = 0
    /\ lastModTime = 0
    /\ fileConfig = 0
    /\ reloader = [w \in Watchers |-> [pc |-> "idle", cfg |-> 0]]
    /\ callbacks = [i \in CallbackIds |-> NoCallback]
    /\ applied = [manager |-> 0, balancer |-> 0, api |-> 0]

\* main waiting for the signal: server, store and watcher in service
InitStop ==
    /\ mainPc = "running"
    /\ http = "serving"
    /\ store = "open"
    /\ watcher = "open"

\* the gateway at hour 0, no session row
InitGateway ==
    /\ now = 0
    /\ expiresAt = [u \in UploadIds |-> 0]
    /\ removed = {}
    /\ InitWatch
    /\ InitStop

(***************************************************************************)
(* Backend registry: BucketInfo and Manager                                *)
(***************************************************************************)
NewBucketInfo == [Available |-> TRUE, UsedSize |-> 0,
                  operationCountA |-> 0, operationCountB |-> 0,
                  operationLimitReached |-> FALSE]

\* Manager.GetBucket: found?
GetBucket(name) == name \in Buckets

\* BucketInfo.GetAvailableSpace
GetAvailableSpace(bs, b) ==
    IF MaxSizeBytes(b) = 0 THEN UnlimitedSpace ELSE MaxSizeBytes(b) - bs[b].UsedSize

\* Manager.GetAvailableBuckets, as a set (the Go map is iterated in no fixed order)
GetAvailableBuckets(bs) ==
    {b \in Buckets : /\ ~Virtual(b)
                     /\ bs[b].Available
                     /\ (MaxSizeBytes(b) = 0 \/ bs[b].UsedSize < MaxSizeBytes(b))}

\* BucketInfo.UpdateUsedSize
UpdateUsedSize(bs, b, delta) ==
    [bs EXCEPT ![b].UsedSize = @ + delta]

\* BucketInfo.RecordOperation: the new BucketInfo
\* RecordOperation that disables only once the count exceeds the limit
RecordOperation_OffByOne(info, b, cat) ==
    IF Virtual(b) THEN info
    ELSE LET counted == IF cat = "A"
                        THEN [info EXCEPT !.operationCountA = @ + 1]
                        ELSE [info EXCEPT !.operationCountB = @ + 1]
             count == IF cat = "A" THEN counted.operationCountA
                      ELSE counted.operationCountB
         IN IF Limit(b, cat) <= 0 THEN counted
            ELSE IF ~counted.operationLimitReached /\ count > Limit(b, cat)
                 THEN [counted EXCEPT !.Available = FALSE,
                                      !.operationLimitReached = TRUE]
                 ELSE counted

RecordOperation(info, b, cat) ==
    IF Virtual(b) THEN info
    ELSE LET counted == IF cat = "A"
                        THEN [info EXCEPT !.operationCountA = @ + 1]
                        ELSE [info EXCEPT !.operationCountB = @ + 1]
             count == IF cat = "A" THEN counted.operationCountA
                      ELSE counted.operationCountB
         IN IF Limit(b, cat) <= 0 THEN counted
            ELSE IF ~counted.operationLimitReached /\ count >= Limit(b, cat)
                 THEN [counted EXCEPT !.Available = FALSE,
                                      !.operationLimitReached = TRUE]
                 ELSE counted

\* BucketInfo.SetOperationCount: the new BucketInfo
SetOperationCount(info, b, cat, value) ==
    IF Virtual(b) THEN info
    ELSE LET written == IF cat = "A"
                        THEN [info EXCEPT !.operationCountA = value]
                        ELSE [info EXCEPT !.operationCountB = value]
         IN IF Limit(b, cat) <= 0 THEN written
            ELSE IF ~written.operationLimitReached /\ value >= Limit(b, cat)
                 THEN [written EXCEPT !.Available = FALSE,
                                      !.operationLimitReached = TRUE]
                 ELSE written

(***************************************************************************)
(* Store: bucket_stats operation counters                                  *)
(***************************************************************************)
\* an increment that bumps both operation columns of the row
IncrementBucketOperation_AllColumns(db, b, cat) ==
    [db EXCEPT ![b].A = @ + 1, ![b].B = @ + 1]

\* Service.IncrementBucketOperation: the rows after the transaction
IncrementBucketOperation(db, b, cat) ==
    IF cat = "A" THEN [db EXCEPT ![b].A = @ + 1]
    ELSE [db EXCEPT ![b].B = @ + 1]

\* the post-increment value the transaction returns
PersistedCount(db, b, cat) == IF cat = "A" THEN db[b].A ELSE db[b].B

\* whether IncrementBucketOperation succeeds when a handler records an
\* operation: the request handlers are explored with the bucket_stats store
\* answering; SpecQuota explores its failures
StoreAnswers == {TRUE}

\* S3Handler.recordBackendOperation: persist the increment and write the
\* returned count to the backend, or count in memory when persisting failed
recordBackendOperation(bs, db, b, cat, persisted) ==
    IF persisted
    THEN LET db2 == IncrementBucketOperation(db, b, cat)
         IN [buckets |-> [bs EXCEPT ![b] =
                             SetOperationCount(@, b, cat, PersistedCount(db2, b, cat))],
             dbStats |-> db2]
    ELSE [buckets |-> [bs EXCEPT ![b] = RecordOperation(@, b, cat)],
          dbStats |-> db]

(***************************************************************************)
(* Store: virtual_bucket_mappings.  The table has plain indexes only       *)
(* (models.go), so Create appends a row whatever rows exist.               *)
(***************************************************************************)
Mapping(vb, key, rb, rk) == [vb |-> vb, key |-> key, rb |-> rb, rk |-> rk]

RowsFor(ms, vb, key) == {i \in 1..Len(ms) : ms[i].vb = vb /\ ms[i].key = key}

\* GetVirtualBucketMapping returns an error when no row matches
HasMapping(ms, vb, key) == RowsFor(ms, vb, key) # {}

\* Service.GetVirtualBucketMapping: First() takes the row with the lowest id
GetVirtualBucketMapping(ms, vb, key) ==
    ms[CHOOSE i \in RowsFor(ms, vb, key) : \A j \in RowsFor(ms, vb, key) : i <= j]

\* Service.CreateVirtualBucketMapping
CreateVirtualBucketMapping(ms, vb, key, rb, rk) ==
    Append(ms, Mapping(vb, key, rb, rk))

\* Service.CountMappingsToRealObject
CountMappingsToRealObject(ms, rb, rk) ==
    Cardinality({i \in 1..Len(ms) : ms[i].rb = rb /\ ms[i].rk = rk})

\* Service.DeleteVirtualBucketObjectMapping: every row of (vb, key) goes
DeleteVirtualBucketObjectMapping(ms, vb, key) ==
    SelectSeq(ms, LAMBDA r : ~(r.vb = vb /\ r.key = key))

\* Service.DeleteVirtualBucketFileMapping (same statement, used by abort)
DeleteVirtualBucketFileMapping(ms, vb, key) ==
    SelectSeq(ms, LAMBDA r : ~(r.vb = vb /\ r.key = key))

(***************************************************************************)
(* Store: objects (one live row per key)                                   *)
(***************************************************************************)
\* Service.RecordObject: upsert by key
RecordObject(objs, key, b, size) ==
    [objs EXCEPT ![key] = [bucket |-> b, size |-> size]]

\* Service.GetObjectInfo finds a live row?
HasObject(objs, key) == objs[key] # NoObject

\* Service.DeleteObject: soft delete of the row, if there is one
DeleteObject(objs, key) == [objs EXCEPT ![key] = NoObject]

(***************************************************************************)
(* Strategies                                                              *)
(***************************************************************************)
Strategies == {"round-robin", "least-space", "weighted", "consistent-hash"}

\* virtual nodes per backend on the ring (ConsistentHashStrategy.replicas is
\* 100 in the source; the model keeps the first few)
Replicas == 2

\* virtual nodes whose hashes are the same for every backend
NodeHash_Shared(b, i) == i + 1

\* ConsistentHashStrategy.hash of the virtual node "<name>-<i>": the first four
\* bytes of the MD5 as a big-endian uint32, shifted right one bit to fit the
\* integers of the checker (the order of the values is the same)
NodeHash(b, i) ==
    CASE b = "b1" -> <<1536211361, 1667136007, 1266366405, 615568483, 1747685605>>[i + 1]
      [] b = "b2" -> <<142339369, 1422340459, 1743862635, 1078353503, 683169293>>[i + 1]
      [] OTHER    -> <<999103810, 1996863290, 1327193770, 1373208330, 2116710896>>[i + 1]

\* ConsistentHashStrategy.hash of an object key
KeyHash(k) == CASE k = "k1" -> 1528551613 [] k = "k2" -> 816907435 [] OTHER -> 2077598542

Range(seq) == {seq[i] : i \in 1..Len(seq)}

\* the candidate lists a snapshot of the set S can come in
Orders(S) == {o \in [1..Cardinality(S) -> S] :
                 \A i, j \in 1..Cardinality(S) : i # j => o[i] # o[j]}

\* ConsistentHashStrategy.updateRing: ring[hash] = b, a later candidate
\* overwrites an earlier one on the same hash; nodes sorted ascending
RingNodes(order) == {NodeHash(b, i) : b \in Range(order), i \in 0..(Replicas - 1)}

RingOwner(order, h) ==
    LET owners == {j \in 1..Len(order) : \E i \in 0..(Replicas - 1) : NodeHash(order[j], i) = h}
    IN order[CHOOSE j \in owners : \A l \in owners : l <= j]

\* a selection by the key's hash modulo the length of the list
RingLookup_ByPosition(order, key) == order[(KeyHash(key) % Len(order)) + 1]

\* the search of ConsistentHashStrategy.SelectBucket in the ring built from
\* `order`: the first node >= hash(key), wrapping to the first node
RingLookup(order, key) ==
    LET nodes == RingNodes(order)
        ge == {n \in nodes : n >= KeyHash(key)}
        node == IF ge = {} THEN CHOOSE n \in nodes : \A m \in nodes : n <= m
                ELSE CHOOSE n \in ge : \A m \in ge : n <= m
    IN RingOwner(order, node)

\* RoundRobinStrategy.SelectBucket with the counter already incremented
RoundRobinSelect(order, counter) == order[(counter % Len(order)) + 1]

\* LeastSpaceStrategy.SelectBucket: stable sort by available space, largest
\* first, and take the head
LeastSpaceSelect(order, bs) ==
    order[CHOOSE i \in 1..Len(order) :
            /\ \A j \in 1..Len(order) :
                 GetAvailableSpace(bs, order[j]) <= GetAvailableSpace(bs, order[i])
            /\ \A j \in 1..(i - 1) :
                 GetAvailableSpace(bs, order[j]) < GetAvailableSpace(bs, order[i])]

\* WeightedStrategy.SelectBucket: the backends a random draw can return
RECURSIVE TotalWeight(_)
TotalWeight(order) ==
    IF order = <<>> THEN 0 ELSE Weight(Head(order)) + TotalWeight(Tail(order))

WeightedSelect(order) ==
    LET total == TotalWeight(order)
    IN IF total = 0 THEN Range(order)
       ELSE {b \in Range(order) : Weight(b) > 0}

(***************************************************************************)
(* Balancer.selectOnce, run in one step: snapshot, space filter, strategy. *)
(* The result is a record [ok, bucket, rr, ring].                          *)
(***************************************************************************)
\* Balancer.config.RetryAttempts
RetryAttempts == 2

\* the candidates selectOnce keeps: GetAvailableBuckets, then the space filter
SpaceFiltered(bs, size) ==
    {b \in GetAvailableBuckets(bs) : GetAvailableSpace(bs, b) >= size}

\* the strategy call of selectOnce on the candidate list `order`
StrategyResults(strat, order, key, bs, rr, rg) ==
    CASE strat = "round-robin" ->
            {[ok |-> TRUE, bucket |-> RoundRobinSelect(order, rr + 1),
              rr |-> rr + 1, ring |-> rg]}
      [] strat = "least-space" ->
            {[ok |-> TRUE, bucket |-> LeastSpaceSelect(order, bs), rr |-> rr, ring |-> rg]}
      [] strat = "weighted" ->
            {[ok |-> TRUE, bucket |-> b, rr |-> rr, ring |-> rg] : b \in WeightedSelect(order)}
      [] OTHER ->
            {[ok |-> TRUE, bucket |-> RingLookup(order, key), rr |-> rr, ring |-> order]}

\* selectOnce without the available-space filter
selectOnce_NoSpaceFilter(strat, key, size, bs, rr, rg) ==
    IF GetAvailableBuckets(bs) = {}
    THEN {[ok |-> FALSE, bucket |-> NoBucket, rr |-> rr, ring |-> rg]}
    ELSE UNION {StrategyResults(strat, order, key, bs, rr, rg) :
                  order \in Orders(GetAvailableBuckets(bs))}

\* Balancer.selectOnce: every outcome the attempt can have in this state
selectOnce(strat, key, size, bs, rr, rg) ==
    IF SpaceFiltered(bs, size) = {}
    THEN {[ok |-> FALSE, bucket |-> NoBucket, rr |-> rr, ring |-> rg]}
    ELSE UNION {StrategyResults(strat, order, key, bs, rr, rg) :
                  order \in Orders(SpaceFiltered(bs, size))}

(***************************************************************************)
(* Requests                                                                *)
(***************************************************************************)
NoSrc == <<"", "">>
\* the buckets requests name: the virtual bucket and a real backend
ReqBuckets == {"v1", "b1"}

IdleReq == [op |-> "none", bucket |-> "", key |-> "", size |-> 0, src |-> NoSrc,
            target |-> NoBucket, realKey |-> "", count |-> 0, tries |-> 0,
            picked |-> FALSE, call |-> "none", code |-> 0, payload |-> 0, got |-> 0,
            cat |-> "", cands |-> <<>>, upload |-> 0, closed |-> {},
            strat |-> "", tag |-> ""]

NoStored == [payload |-> 0, size |-> 0]

\* the handler finishes with an HTTP status; its locals die with it, the
\* record keeps what the client and the backends saw of the request
Respond(p, r, status) ==
    /\ req' = [req EXCEPT ![p] = [IdleReq EXCEPT !.op = r.op, !.bucket = r.bucket,
                                     !.key = r.key, !.call = r.call, !.got = r.got,
                                     !.code = status]]
    /\ pc' = [pc EXCEPT ![p] = "done"]

Goto(p, r, label) ==
    /\ req' = [req EXCEPT ![p] = r]
    /\ pc' = [pc EXCEPT ![p] = label]

\* a request arrives: the router dispatches on the verb, and handlePutObject
\* hands a PUT with x-amz-copy-source to handleCopyObject
NewRequest(p, op, b, k, size, src) ==
    /\ pc[p] \in {"idle", "done"}
    /\ nreq < MaxRequests
    /\ nreq' = nreq + 1
    /\ req' = [req EXCEPT ![p] = [IdleReq EXCEPT !.op = op, !.bucket = b, !.key = k,
                                     !.size = size, !.src = src, !.payload = nreq + 1]]
    /\ pc' = [pc EXCEPT ![p] = CASE op = "PUT" /\ src # NoSrc -> "copy"
                                 [] op = "PUT" -> "put"
                                 [] op = "GET" -> "get"
                                 [] op = "HEAD" -> "head"
                                 [] op = "DELETE" -> "del"
                                 [] OTHER -> "list"]
    /\ UNCHANGED <<buckets, dbStats, mappings, objects, backend, sessions, uploads,
                   strategy, rrCounter, ring, nrep, lastStatus, managerVars, archiveVars, gatewayVars>>

StartObjectRequest(p) ==
    \E b \in ReqBuckets :
        \/ \E k \in Keys, size \in Sizes : NewRequest(p, "PUT", b, k, size, NoSrc)
        \/ \E k \in Keys, sb \in ReqBuckets, sk \in Keys :
              NewRequest(p, "PUT", b, k, 0, <<sb, sk>>)
        \/ \E op \in {"GET", "HEAD", "DELETE"}, k \in Keys :
              NewRequest(p, op, b, k, 0, NoSrc)
        \/ NewRequest(p, "LIST", b, "", 0, NoSrc)

(***************************************************************************)
(* handleGetObject                                                         *)
(***************************************************************************)
\* the backend read behind the presigned URL (proxy mode relays its status)
FetchFrom(p, r, b, k) ==
    IF backend[<<b, k>>] = NoStored
    THEN Respond(p, [r EXCEPT !.call = "GET", !.target = b, !.realKey = k], 404)
    ELSE Respond(p, [r EXCEPT !.call = "GET", !.target = b, !.realKey = k,
                              !.got = backend[<<b, k>>].payload], 200)

GetObject(p) ==
    /\ pc[p] = "get"
    /\ LET r == req[p] IN
       IF ~GetBucket(r.bucket)
       THEN Respond(p, r, 404) /\ UNCHANGED <<buckets, dbStats>>
       ELSE IF Virtual(r.bucket)
       THEN IF ~HasMapping(mappings, r.bucket, r.key)
            THEN Respond(p, r, 404) /\ UNCHANGED <<buckets, dbStats>>
            ELSE LET m == GetVirtualBucketMapping(mappings, r.bucket, r.key) IN
                 \E persisted \in StoreAnswers :
                    LET c == recordBackendOperation(buckets, dbStats, m.rb, "B", persisted) IN
                    /\ buckets' = c.buckets
                    /\ dbStats' = c.dbStats
                    /\ FetchFrom(p, r, m.rb, m.rk)
       ELSE FetchFrom(p, r, r.bucket, r.key) /\ UNCHANGED <<buckets, dbStats>>
    /\ UNCHANGED <<mappings, objects, backend, sessions, uploads,
                   strategy, rrCounter, ring, nreq, nrep, lastStatus, managerVars, archiveVars, gatewayVars>>

(***************************************************************************)
(* handleHeadObject                                                        *)
(***************************************************************************)
HeadObject(p) ==
    /\ pc[p] = "head"
    /\ LET r == req[p] IN
       IF ~GetBucket(r.bucket) THEN Respond(p, r, 404)
       ELSE IF Virtual(r.bucket) /\ ~HasMapping(mappings, r.bucket, r.key)
       THEN Respond(p, r, 404)
       ELSE IF ~HasObject(objects, r.key) THEN Respond(p, r, 404)
       ELSE Respond(p, r, 200)
    /\ UNCHANGED <<buckets, dbStats, mappings, objects, backend, sessions, uploads,
                   strategy, rrCounter, ring, nreq, nrep, lastStatus, managerVars, archiveVars, gatewayVars>>

(***************************************************************************)
(* handleListObjects                                                       *)
(***************************************************************************)
ListObjects(p) ==
    /\ pc[p] = "list"
    /\ LET r == req[p] IN
       IF ~GetBucket(r.bucket) THEN Respond(p, r, 404)
       ELSE IF Virtual(r.bucket) THEN Respond(p, r, 200)
       ELSE Respond(p, r, 404)
    /\ UNCHANGED <<buckets, dbStats, mappings, objects, backend, sessions, uploads,
                   strategy, rrCounter, ring, nreq, nrep, lastStatus, managerVars, archiveVars, gatewayVars>>

(***************************************************************************)
(* handlePutObject                                                         *)
(***************************************************************************)
\* bucket check and mapping lookup
PutLookup(p) ==
    /\ pc[p] = "put"
    /\ LET r == req[p] IN
       IF ~GetBucket(r.bucket) THEN Respond(p, r, 404)
       ELSE IF ~Virtual(r.bucket) THEN Respond(p, r, 404)
       ELSE IF HasMapping(mappings, r.bucket, r.key)
       THEN Goto(p, [r EXCEPT !.target =
                        GetVirtualBucketMapping(mappings, r.bucket, r.key).rb],
                 "put_upload")
       ELSE Goto(p, r, "put_select")
    /\ UNCHANGED <<buckets, dbStats, mappings, objects, backend, sessions, uploads,
                   strategy, rrCounter, ring, nreq, nrep, lastStatus, managerVars, archiveVars, gatewayVars>>

\* Balancer.SelectBucket: one attempt of the retry loop per step; after the
\* last failed attempt the handler answers 507 InsufficientStorage
PutSelect(p) ==
    /\ pc[p] = "put_select"
    /\ LET r == req[p] IN
       \E res \in selectOnce(strategy, r.key, r.size, buckets, rrCounter, ring) :
          /\ rrCounter' = res.rr
          /\ ring' = res.ring
          /\ IF res.ok
             THEN Goto(p, [r EXCEPT !.target = res.bucket, !.picked = TRUE], "put_create")
             ELSE IF r.tries + 1 >= RetryAttempts
             THEN Respond(p, [r EXCEPT !.tries = @ + 1], 507)
             ELSE Goto(p, [r EXCEPT !.tries = @ + 1], "put_select")
    /\ UNCHANGED <<buckets, dbStats, mappings, objects, backend, sessions, uploads,
                   strategy, nreq, nrep, lastStatus, managerVars, archiveVars, gatewayVars>>

\* CreateVirtualBucketMapping(bucket, key, target, key); a store error ends
\* the request with InternalError
PutCreate(p) ==
    /\ pc[p] = "put_create"
    /\ LET r == req[p] IN
       \/ /\ mappings' = CreateVirtualBucketMapping(mappings, r.bucket, r.key, r.target, r.key)
          /\ Goto(p, r, "put_upload")
       \/ /\ UNCHANGED mappings
          /\ Respond(p, r, 500)
    /\ UNCHANGED <<buckets, dbStats, objects, backend, sessions, uploads,
                   strategy, rrCounter, ring, nreq, nrep, lastStatus, managerVars, archiveVars, gatewayVars>>

\* recordBackendOperation(A), then the proxied upload to (target, key); on a
\* 2xx RecordObject and UpdateUsedSize
PutUpload(p) ==
    /\ pc[p] = "put_upload"
    /\ LET r == req[p] IN
       \E persisted \in StoreAnswers, uploaded \in BOOLEAN :
          LET c == recordBackendOperation(buckets, dbStats, r.target, "A", persisted) IN
          /\ dbStats' = c.dbStats
          /\ IF uploaded
             THEN /\ backend' = [backend EXCEPT ![<<r.target, r.key>>] =
                                    [payload |-> r.payload, size |-> r.size]]
                  /\ objects' = RecordObject(objects, r.key, r.target, r.size)
                  /\ buckets' = UpdateUsedSize(c.buckets, r.target, r.size)
                  /\ Respond(p, [r EXCEPT !.call = "PUT", !.realKey = r.key], 200)
             ELSE /\ buckets' = c.buckets
                  /\ UNCHANGED <<backend, objects>>
                  /\ Respond(p, [r EXCEPT !.call = "PUT", !.realKey = r.key], 500)
    /\ UNCHANGED <<mappings, sessions, uploads, strategy, rrCounter, ring, nreq, nrep, lastStatus, managerVars, archiveVars, gatewayVars>>

(***************************************************************************)
(* handleCopyObject                                                        *)
(***************************************************************************)
\* bucket checks and the lookup of the source mapping
CopyLookup(p) ==
    /\ pc[p] = "copy"
    /\ LET r == req[p] IN
       IF ~GetBucket(r.bucket) \/ ~GetBucket(r.src[1]) THEN Respond(p, r, 404)
       ELSE IF ~HasMapping(mappings, r.src[1], r.src[2]) THEN Respond(p, r, 404)
       ELSE IF ~Virtual(r.bucket) THEN Respond(p, r, 404)
       ELSE LET m == GetVirtualBucketMapping(mappings, r.src[1], r.src[2]) IN
            Goto(p, [r EXCEPT !.target = m.rb, !.realKey = m.rk], "copy_create")
    /\ UNCHANGED <<buckets, dbStats, mappings, objects, backend, sessions, uploads,
                   strategy, rrCounter, ring, nreq, nrep, lastStatus, managerVars, archiveVars, gatewayVars>>

\* a copy that points the destination's mapping at the destination's own key
CopyCreate_OwnKey(p) ==
    /\ pc[p] = "copy_create"
    /\ LET r == req[p] IN
       \/ /\ mappings' = CreateVirtualBucketMapping(mappings, r.bucket, r.key,
                                                    r.target, r.key)
          /\ Respond(p, r, 200)
       \/ /\ UNCHANGED mappings
          /\ Respond(p, r, 500)
    /\ UNCHANGED <<buckets, dbStats, objects, backend, sessions, uploads,
                   strategy, rrCounter, ring, nreq, nrep, lastStatus, managerVars, archiveVars, gatewayVars>>

\* the new mapping for the destination, pointing at the source's real object
CopyCreate(p) ==
    /\ pc[p] = "copy_create"
    /\ LET r == req[p] IN
       \/ /\ mappings' = CreateVirtualBucketMapping(mappings, r.bucket, r.key,
                                                    r.target, r.realKey)
          /\ Respond(p, r, 200)
       \/ /\ UNCHANGED mappings
          /\ Respond(p, r, 500)
    /\ UNCHANGED <<buckets, dbStats, objects, backend, sessions, uploads,
                   strategy, rrCounter, ring, nreq, nrep, lastStatus, managerVars, archiveVars, gatewayVars>>

(***************************************************************************)
(* handleDeleteObject                                                      *)
(***************************************************************************)
DeleteLookup(p) ==
    /\ pc[p] = "del"
    /\ LET r == req[p] IN
       IF ~GetBucket(r.bucket) THEN Respond(p, r, 404)
       ELSE IF ~Virtual(r.bucket) THEN Respond(p, r, 204)
       ELSE IF ~HasMapping(mappings, r.bucket, r.key) THEN Respond(p, r, 204)
       ELSE LET m == GetVirtualBucketMapping(mappings, r.bucket, r.key) IN
            Goto(p, [r EXCEPT !.target = m.rb, !.realKey = m.rk], "del_mapping")
    /\ UNCHANGED <<buckets, dbStats, mappings, objects, backend, sessions, uploads,
                   strategy, rrCounter, ring, nreq, nrep, lastStatus, managerVars, archiveVars, gatewayVars>>

\* DeleteVirtualBucketObjectMapping; an error is logged and the handler goes on
DeleteMapping(p) ==
    /\ pc[p] = "del_mapping"
    /\ \/ mappings' = DeleteVirtualBucketObjectMapping(mappings, req[p].bucket, req[p].key)
       \/ UNCHANGED mappings
    /\ Goto(p, req[p], "del_count")
    /\ UNCHANGED <<buckets, dbStats, objects, backend, sessions, uploads,
                   strategy, rrCounter, ring, nreq, nrep, lastStatus, managerVars, archiveVars, gatewayVars>>

\* the count the handler goes on with: CountMappingsToRealObject returns
\* (0, err) on a store error, and the handler only logs the error
CountOutcomes(ms, rb, rk) == {CountMappingsToRealObject(ms, rb, rk), 0}

DeleteCount(p) ==
    /\ pc[p] = "del_count"
    /\ LET r == req[p] IN
       \E count \in CountOutcomes(mappings, r.target, r.realKey) :
          IF count = 0
          THEN Goto(p, [r EXCEPT !.count = count], "del_backend")
          ELSE Respond(p, [r EXCEPT !.count = count], 204)
    /\ UNCHANGED <<buckets, dbStats, mappings, objects, backend, sessions, uploads,
                   strategy, rrCounter, ring, nreq, nrep, lastStatus, managerVars, archiveVars, gatewayVars>>

\* count = 0: recordBackendOperation(A), the backend DELETE of (target,
\* realKey) (an error is logged), DeleteObject(realKey); always 204
DeleteBackend(p) ==
    /\ pc[p] = "del_backend"
    /\ LET r == req[p] IN
       \E persisted \in StoreAnswers, deleted \in BOOLEAN :
          LET c == recordBackendOperation(buckets, dbStats, r.target, "A", persisted) IN
          /\ buckets' = c.buckets
          /\ dbStats' = c.dbStats
          /\ backend' = IF deleted
                        THEN [backend EXCEPT ![<<r.target, r.realKey>>] = NoStored]
                        ELSE backend
          /\ removed' = IF deleted /\ backend[<<r.target, r.realKey>>] # NoStored
                        THEN removed \cup {<<r.target, r.realKey>>}
                        ELSE removed
          /\ objects' = DeleteObject(objects, r.realKey)
          /\ Respond(p, [r EXCEPT !.call = "DELETE"], 204)
    /\ UNCHANGED <<mappings, sessions, uploads, strategy, rrCounter, ring, nreq, nrep,
                   lastStatus, managerVars, archiveVars, now, expiresAt, watchVars, stopVars>>

(***************************************************************************)
(* Monitors: MetricsReporter                                               *)
(***************************************************************************)
\* ReportHealth without the operation-limit guard
ReportHealth_Unguarded(info, healthy) == [info EXCEPT !.Available = healthy]

\* MetricsReporter.ReportHealth: the BucketInfo after the report
ReportHealth(info, healthy) ==
    IF ~info.operationLimitReached THEN [info EXCEPT !.Available = healthy] ELSE info

\* MetricsReporter.ReportStats: the BucketInfo after the report
ReportStats(info, used) == [info EXCEPT !.UsedSize = used]

\* health.Status of a target before its first probe
NoStatus == [Healthy |-> FALSE, LastChecked |-> 0]

\* the health monitor probes a real backend and reports the result
HealthReport ==
    /\ nrep < MaxReports
    /\ nrep' = nrep + 1
    /\ \E b \in RealBuckets, healthy \in BOOLEAN :
          /\ lastStatus' = [lastStatus EXCEPT ![b] = [Healthy |-> healthy, LastChecked |-> nrep + 1]]
          /\ buckets' = [buckets EXCEPT ![b] = ReportHealth(@, healthy)]
    /\ UNCHANGED <<dbStats, mappings, objects, backend, sessions, uploads,
                   strategy, rrCounter, ring, pc, req, nreq, managerVars, archiveVars, gatewayVars>>

\* the stats monitor lists a real backend and reports the bytes it holds
StatsReport ==
    /\ nrep < MaxReports
    /\ nrep' = nrep + 1
    /\ \E b \in RealBuckets, used \in 0..MaxSize :
          buckets' = [buckets EXCEPT ![b] = ReportStats(@, used)]
    /\ UNCHANGED <<dbStats, mappings, objects, backend, sessions, uploads,
                   strategy, rrCounter, ring, pc, req, nreq, lastStatus, managerVars, archiveVars, gatewayVars>>

(***************************************************************************)
(* The gateway serving object requests; the balancer runs the strategy the *)
(* configuration defaults to                                               *)
(***************************************************************************)
Init ==
    /\ buckets = [b \in Buckets |-> NewBucketInfo]
    /\ dbStats = [b \in Buckets |-> [A |-> 0, B |-> 0]]
    /\ mappings = <<>>
    /\ objects = [k \in Keys |-> NoObject]
    /\ backend = [bk \in RealBuckets \X Keys |-> NoStored]
    /\ sessions = [u \in UploadIds |-> NoSession]
    /\ uploads = [u \in UploadIds |-> NoUpload]
    /\ strategy = "least-space"
    /\ rrCounter = 0
    /\ ring = <<>>
    /\ pc = [p \in Procs |-> "idle"]
    /\ req = [p \in Procs |-> IdleReq]
    /\ nreq = 0
    /\ nrep = 0
    /\ lastStatus = [b \in RealBuckets |-> NoStatus]
    /\ InitManager
    /\ InitArchiver
    /\ InitGateway

ObjectRequest(p) ==
    \/ StartObjectRequest(p)
    \/ GetObject(p)
    \/ HeadObject(p)
    \/ ListObjects(p)
    \/ PutLookup(p)
    \/ PutSelect(p)
    \/ PutCreate(p)
    \/ PutUpload(p)
    \/ CopyLookup(p)
    \/ CopyCreate(p)
    \/ DeleteLookup(p)
    \/ DeleteMapping(p)
    \/ DeleteCount(p)
    \/ DeleteBackend(p)

Next ==
    \E p \in Procs : ObjectRequest(p)

Spec == Init /\ [][Next]_vars

(***************************************************************************)
(* Properties of the object handlers                                       *)
(***************************************************************************)
\* process p took the step
Stepped(p) == pc'[p] # pc[p] \/ req'[p] # req[p]

\* C1: in every reachable state every (virtual bucket, object key) pair has
\* at most one mapping row
C1_OneMappingPerKey ==
    \A vb \in VirtualBuckets, k \in Keys : Cardinality(RowsFor(mappings, vb, k)) <= 1

\* C2: two PUT requests that both found the same (virtual bucket, key)
\* without a mapping leave exactly one mapping row and both upload to the
\* backend that row names
C2_PutRaceOneRow ==
    \A p, q \in Procs :
        ( /\ p # q
          /\ pc[p] = "put_upload" /\ pc[q] = "put_upload"
          /\ req[p].picked /\ req[q].picked
          /\ req[p].bucket = req[q].bucket /\ req[p].key = req[q].key )
        => /\ Cardinality(RowsFor(mappings, req[p].bucket, req[p].key)) = 1
           /\ req[p].target = GetVirtualBucketMapping(mappings, req[p].bucket, req[p].key).rb
           /\ req[q].target = req[p].target

\* C3: after deleting its own mapping, DELETE goes on to the backend DELETE
\* only when no mapping of another key refers to the same (real bucket,
\* real key), whatever the outcome of the mapping deletion and of the count
\* query
C3_BackendDeleteOnlyUnreferenced ==
    [][\A p \in Procs :
          (pc[p] = "del_count" /\ pc'[p] = "del_backend")
          => \A i \in 1..Len(mappings) :
                (mappings[i].rb = req[p].target /\ mappings[i].rk = req[p].realKey)
                => (mappings[i].vb = req[p].bucket /\ mappings[i].key = req[p].key)]_vars

\* C4: after PUT B/K, a copy onto another key from /B/K and DELETE B/K, run
\* one after the other, the destination's mapping still points at a real
\* object that is on the backend
C4_CopySurvivesSourceDelete ==
    [][\A p \in Procs :
          ( /\ pc[p] = "del_backend" /\ pc'[p] = "done"
            /\ \A q \in Procs \ {p} : pc[q] = "idle"
            /\ backend[<<req[p].target, req[p].realKey>>] # NoStored )
          => \A i \in 1..Len(mappings') :
                ( /\ mappings'[i].key # req[p].key
                  /\ mappings'[i].rb = req[p].target
                  /\ mappings'[i].rk = req[p].realKey )
                => backend'[<<mappings'[i].rb, mappings'[i].rk>>] # NoStored]_vars

\* C8: a PUT on a key without a mapping for which the balancer finds no
\* candidate is answered 507 after the last attempt, and no step of a
\* request up to that answer changes a mapping, an operation counter, a
\* used-bytes value, the round-robin counter or the ring; 507 has no other
\* origin
C8_NoCandidate507 ==
    [][\A p \in Procs :
          /\ (Stepped(p) /\ pc[p] \in {"put", "put_select"})
             => /\ mappings' = mappings
                /\ buckets' = buckets
                /\ dbStats' = dbStats
                /\ objects' = objects
                /\ backend' = backend
          /\ ( /\ Stepped(p) /\ pc[p] = "put_select"
               /\ \A b \in RealBuckets :
                     \/ ~buckets[b].Available
                     \/ (MaxSizeBytes(b) > 0 /\ buckets[b].UsedSize >= MaxSizeBytes(b))
                     \/ (MaxSizeBytes(b) > 0
                           /\ MaxSizeBytes(b) - buckets[b].UsedSize < req[p].size) )
             => /\ rrCounter' = rrCounter /\ ring' = ring
                /\ IF req[p].tries + 1 >= RetryAttempts
                   THEN pc'[p] = "done" /\ req'[p].code = 507
                   ELSE pc'[p] = "put_select" /\ req'[p].tries = req[p].tries + 1
          /\ (Stepped(p) /\ pc'[p] = "done" /\ req'[p].code = 507)
             => /\ pc[p] = "put_select"
                /\ ~HasMapping(mappings', req[p].bucket, req[p].key)
                      \/ HasMapping(mappings, req[p].bucket, req[p].key)]_vars

\* a PUT was answered 507 while no backend could take it
C8_Witness ==
    \E p \in Procs :
        /\ pc[p] = "done" /\ req[p].op = "PUT" /\ req[p].code = 507
        /\ mappings # <<>>
        /\ ~HasMapping(mappings, req[p].bucket, req[p].key)

\* C9: a request that names a real backend touches no backend and no
\* mapping, and is answered 404 (DELETE 204)
C9_RealBucketNotAddressable ==
    [][\A p \in Procs :
          (Stepped(p) /\ req'[p].bucket \in RealBuckets)
          => /\ backend' = backend
             /\ mappings' = mappings
             /\ req'[p].call = "none"
             /\ pc'[p] = "done"
                  => req'[p].code = IF req'[p].op = "DELETE" THEN 204 ELSE 404]_vars

(***************************************************************************)
(* Operation quotas: the counters of the backends under concurrent         *)
(* recordings, with the monitors reporting                                 *)
(***************************************************************************)
Categories == {"A", "B"}

\* Manager.loadOperationCounts: the persisted counts written into a BucketInfo
loadOperationCounts(info, b, db) ==
    SetOperationCount(SetOperationCount(info, b, "A", db[b].A), b, "B", db[b].B)

\* the bucket_stats rows the gateway can find at its start: none counted
\* yet, or b1 already at its A limit
PersistedAtStart ==
    {[b \in Buckets |-> [A |-> IF b = "b1" THEN a ELSE 0, B |-> 0]] : a \in {0, LimitA("b1")}}

\* NewManager: the BucketInfos as constructed, then loadOperationCounts
InitQuota ==
    /\ dbStats \in PersistedAtStart
    /\ buckets = [b \in Buckets |-> loadOperationCounts(NewBucketInfo, b, dbStats)]
    /\ mappings = <<>>
    /\ objects = [k \in Keys |-> NoObject]
    /\ backend = [bk \in RealBuckets \X Keys |-> NoStored]
    /\ sessions = [u \in UploadIds |-> NoSession]
    /\ uploads = [u \in UploadIds |-> NoUpload]
    /\ strategy = "least-space"
    /\ rrCounter = 0
    /\ ring = <<>>
    /\ pc = [p \in Procs |-> "idle"]
    /\ req = [p \in Procs |-> IdleReq]
    /\ nreq = 0
    /\ nrep = 0
    /\ lastStatus = [b \in RealBuckets |-> NoStatus]
    /\ InitManager
    /\ InitArchiver
    /\ InitGateway

\* a recording that drops the operation when persisting it failed
PersistOperation_DropOnError(p) ==
    /\ pc[p] \in {"idle", "done"}
    /\ nreq < MaxRequests
    /\ nreq' = nreq + 1
    /\ \E b \in RealBuckets, cat \in Categories :
          \/ /\ dbStats' = IncrementBucketOperation(dbStats, b, cat)
             /\ Goto(p, [IdleReq EXCEPT !.op = "record", !.target = b, !.cat = cat,
                            !.count = PersistedCount(dbStats', b, cat)], "quota_set")
             /\ UNCHANGED buckets
          \/ /\ Goto(p, [IdleReq EXCEPT !.op = "record", !.target = b, !.cat = cat], "done")
             /\ UNCHANGED <<buckets, dbStats>>
    /\ UNCHANGED <<mappings, objects, backend, sessions, uploads,
                   strategy, rrCounter, ring, nrep, lastStatus, managerVars, archiveVars, gatewayVars>>

\* recordBackendOperation, first half: IncrementBucketOperation in its
\* transaction; when it fails the count is kept in memory only
PersistOperation(p) ==
    /\ pc[p] \in {"idle", "done"}
    /\ nreq < MaxRequests
    /\ nreq' = nreq + 1
    /\ \E b \in RealBuckets, cat \in Categories :
          \/ /\ dbStats' = IncrementBucketOperation(dbStats, b, cat)
             /\ Goto(p, [IdleReq EXCEPT !.op = "record", !.target = b, !.cat = cat,
                            !.count = PersistedCount(dbStats', b, cat)], "quota_set")
             /\ UNCHANGED buckets
          \/ /\ buckets' = [buckets EXCEPT ![b] = RecordOperation(@, b, cat)]
             /\ Goto(p, [IdleReq EXCEPT !.op = "record", !.target = b, !.cat = cat], "done")
             /\ UNCHANGED dbStats
    /\ UNCHANGED <<mappings, objects, backend, sessions, uploads,
                   strategy, rrCounter, ring, nrep, lastStatus, managerVars, archiveVars, gatewayVars>>

\* recordBackendOperation, second half: SetOperationCount(category, newCount)
WriteOperationCount(p) ==
    /\ pc[p] = "quota_set"
    /\ buckets' = [buckets EXCEPT ![req[p].target] =
                      SetOperationCount(@, req[p].target, req[p].cat, req[p].count)]
    /\ Goto(p, req[p], "done")
    /\ UNCHANGED <<dbStats, mappings, objects, backend, sessions, uploads,
                   strategy, rrCounter, ring, nreq, nrep, lastStatus, managerVars, archiveVars, gatewayVars>>

NextQuota ==
    \/ \E p \in Procs : PersistOperation(p) \/ WriteOperationCount(p)
    \/ HealthReport
    \/ StatsReport

SpecQuota == InitQuota /\ [][NextQuota]_vars

OperationCount(b, cat) ==
    IF cat = "A" THEN buckets[b].operationCountA ELSE buckets[b].operationCountB

LimitHolds ==
    \A b \in RealBuckets, cat \in Categories :
        (Limit(b, cat) > 0 /\ OperationCount(b, cat) >= Limit(b, cat))
        => (~buckets[b].Available /\ buckets[b].operationLimitReached)

\* C5: a backend whose recorded count of a class has reached the class's
\* positive limit is unavailable and marked operation-limit-reached, and
\* once marked it stays unavailable and marked under every later recording,
\* counter write, health report and stats report
C5_LimitDisables ==
    /\ LimitHolds
    /\ [][/\ LimitHolds'
          /\ \A b \in RealBuckets :
                buckets[b].operationLimitReached
                => (buckets'[b].operationLimitReached /\ ~buckets'[b].Available)]_vars

\* b2 was disabled by recordings that reached its A limit, and a healthy
\* probe and a stats report of it have been delivered
C5_Witness ==
    /\ buckets["b2"].operationLimitReached /\ ~buckets["b2"].Available
    /\ buckets["b2"].operationCountA >= LimitA("b2")
    /\ lastStatus["b2"].Healthy /\ lastStatus["b2"].LastChecked > 0
    /\ buckets["b2"].UsedSize > 0

\* C6: a health report leaves a backend that is marked operation-limit-
\* reached unavailable, and sets the availability of every other backend to
\* the probe result
C6_HealthReportGuard ==
    [][\A b \in RealBuckets :
          lastStatus'[b].LastChecked # lastStatus[b].LastChecked
          => IF buckets[b].operationLimitReached
             THEN ~buckets'[b].Available
             ELSE buckets'[b].Available = lastStatus'[b].Healthy]_vars

\* no operation was recorded since the start, b1 came up disabled by its
\* persisted count and a healthy probe of it has been reported, as has an
\* unhealthy probe of the other backend
C6_Witness ==
    /\ nreq = 0
    /\ buckets["b1"].operationLimitReached
    /\ lastStatus["b1"].Healthy /\ lastStatus["b1"].LastChecked > 0
    /\ ~buckets["b1"].Available
    /\ lastStatus["b2"].LastChecked > 0
    /\ buckets["b2"].Available = lastStatus["b2"].Healthy

(***************************************************************************)
(* The balancer under concurrent picks: selectOnce step by step.  The      *)
(* backends are in any state the monitors and the handlers can leave them  *)
(* in, and the balancer runs any of its strategies.                        *)
(***************************************************************************)
BucketStates ==
    {bs \in [Buckets -> [Available : BOOLEAN, UsedSize : 0..MaxSize,
                         operationCountA : {0}, operationCountB : {0},
                         operationLimitReached : {FALSE}]] :
        \A b \in VirtualBuckets : bs[b] = NewBucketInfo}

InitPick ==
    /\ buckets \in BucketStates
    /\ dbStats = [b \in Buckets |-> [A |-> 0, B |-> 0]]
    /\ mappings = <<>>
    /\ objects = [k \in Keys |-> NoObject]
    /\ backend = [bk \in RealBuckets \X Keys |-> NoStored]
    /\ sessions = [u \in UploadIds |-> NoSession]
    /\ uploads = [u \in UploadIds |-> NoUpload]
    /\ strategy \in Strategies
    /\ rrCounter = 0
    /\ ring = <<>>
    /\ pc = [p \in Procs |-> "idle"]
    /\ req = [p \in Procs |-> IdleReq]
    /\ nreq = 0
    /\ nrep = 0
    /\ lastStatus = [b \in RealBuckets |-> NoStatus]
    /\ InitManager
    /\ InitArchiver
    /\ InitGateway

\* a caller enters Balancer.SelectBucket(key, size)
PickStart(p) ==
    /\ pc[p] \in {"idle", "done"}
    /\ nreq < MaxRequests
    /\ nreq' = nreq + 1
    /\ \E k \in Keys, size \in Sizes :
          Goto(p, [IdleReq EXCEPT !.op = "pick", !.key = k, !.size = size], "pick_snapshot")
    /\ UNCHANGED <<buckets, dbStats, mappings, objects, backend, sessions, uploads,
                   strategy, rrCounter, ring, nrep, lastStatus, managerVars, archiveVars, gatewayVars>>

\* selectOnce up to the strategy call: GetAvailableBuckets and the space
\* filter give the attempt's candidate list, in the order the map iteration
\* produced; an empty list fails the attempt
PickSnapshot(p) ==
    /\ pc[p] = "pick_snapshot"
    /\ LET r == req[p] IN
       IF SpaceFiltered(buckets, r.size) = {}
       THEN IF r.tries + 1 >= RetryAttempts
            THEN Goto(p, [r EXCEPT !.tries = @ + 1, !.code = 507], "done")
            ELSE Goto(p, [r EXCEPT !.tries = @ + 1], "pick_snapshot")
       ELSE \E order \in Orders(SpaceFiltered(buckets, r.size)) :
               Goto(p, [r EXCEPT !.cands = order], "pick_strategy")
    /\ UNCHANGED <<buckets, dbStats, mappings, objects, backend, sessions, uploads,
                   strategy, rrCounter, ring, nreq, nrep, lastStatus, managerVars, archiveVars, gatewayVars>>

\* b.strategy.SelectBucket(availableBuckets, key, size): the consistent-hash
\* strategy rebuilds the shared ring from the list under the write lock and
\* releases it before it searches; the others answer in one step
PickStrategy(p) ==
    /\ pc[p] = "pick_strategy"
    /\ LET r == req[p] IN
       IF strategy = "consistent-hash"
       THEN /\ ring' = r.cands
            /\ Goto(p, r, "pick_lookup")
            /\ UNCHANGED rrCounter
       ELSE \E res \in StrategyResults(strategy, r.cands, r.key, buckets, rrCounter, ring) :
               /\ rrCounter' = res.rr
               /\ ring' = res.ring
               /\ Goto(p, [r EXCEPT !.target = res.bucket, !.picked = TRUE, !.code = 200,
                                    !.count = res.rr], "done")
    /\ UNCHANGED <<buckets, dbStats, mappings, objects, backend, sessions, uploads,
                   strategy, nreq, nrep, lastStatus, managerVars, archiveVars, gatewayVars>>

\* ConsistentHashStrategy.SelectBucket after updateRing: the search of the
\* ring under the read lock
PickLookup(p) ==
    /\ pc[p] = "pick_lookup"
    /\ Goto(p, [req[p] EXCEPT !.target = RingLookup(ring, req[p].key),
                              !.picked = TRUE, !.code = 200], "done")
    /\ UNCHANGED <<buckets, dbStats, mappings, objects, backend, sessions, uploads,
                   strategy, rrCounter, ring, nreq, nrep, lastStatus, managerVars, archiveVars, gatewayVars>>

NextPick ==
    \E p \in Procs : PickStart(p) \/ PickSnapshot(p) \/ PickStrategy(p) \/ PickLookup(p)

SpecPick == InitPick /\ [][NextPick]_vars

\* C7: the backend a pick returns is one of the candidates of the attempt
\* that returned it, which were the backends that were non-virtual,
\* available, within capacity and with available space >= size when the
\* attempt took its snapshot
C7_PickFromSnapshot ==
    \A p \in Procs :
        (pc[p] = "done" /\ req[p].op = "pick" /\ req[p].picked)
        => req[p].target \in Range(req[p].cands)

(***************************************************************************)
(* PUTs under operation limits: the gateway under any strategy, with       *)
(* SelectBucket step by step as the handler's goroutine runs it.  What the *)
(* monitors do to a backend at its limit is the subject of SpecQuota.      *)
(***************************************************************************)
\* the backends whose operation limit has been reached
LimitReached(bs) == {b \in RealBuckets : bs[b].operationLimitReached}

\* the bucket_stats rows the gateway can find at its start: none counted
\* yet, or b1 one class-A operation short of its limit
PersistedBelowLimit ==
    {[b \in Buckets |-> [A |-> IF b = "b1" THEN a ELSE 0, B |-> 0]] :
        a \in {0, LimitA("b1") - 1}}

\* the gateway after its start: the counters loaded from the store, and b2
\* holding as many bytes as the stats monitor found on it
InitLimit ==
    /\ dbStats \in PersistedBelowLimit
    /\ \E used \in 0..(MaxSizeBytes("b2") - 1) :
          buckets = [b \in Buckets |->
                        IF b = "b2"
                        THEN ReportStats(loadOperationCounts(NewBucketInfo, b, dbStats), used)
                        ELSE loadOperationCounts(NewBucketInfo, b, dbStats)]
    /\ mappings = <<>>
    /\ objects = [k \in Keys |-> NoObject]
    /\ backend = [bk \in RealBuckets \X Keys |-> NoStored]
    /\ sessions = [u \in UploadIds |-> NoSession]
    /\ uploads = [u \in UploadIds |-> NoUpload]
    /\ strategy \in Strategies
    /\ rrCounter = 0
    /\ ring = <<>>
    /\ pc = [p \in Procs |-> "idle"]
    /\ req = [p \in Procs |-> IdleReq]
    /\ nreq = 0
    /\ nrep = 0
    /\ lastStatus = [b \in RealBuckets |-> NoStatus]
    /\ InitManager
    /\ InitArchiver
    /\ InitGateway

\* a PUT of a virtual bucket's key arrives; the record notes the backends
\* that were at their limit on arrival
StartPut(p) ==
    /\ pc[p] \in {"idle", "done"}
    /\ nreq < MaxRequests
    /\ nreq' = nreq + 1
    /\ \E b \in VirtualBuckets, k \in Keys, size \in Sizes :
          Goto(p, [IdleReq EXCEPT !.op = "PUT", !.bucket = b, !.key = k, !.size = size,
                                  !.payload = nreq + 1, !.closed = LimitReached(buckets)],
               "put")
    /\ UNCHANGED <<buckets, dbStats, mappings, objects, backend, sessions, uploads,
                   strategy, rrCounter, ring, nrep, lastStatus, managerVars, archiveVars, gatewayVars>>

\* selectOnce up to the strategy call, for the PUT's SelectBucket(key, size)
PutSnapshot(p) ==
    /\ pc[p] = "put_select"
    /\ LET r == req[p] IN
       IF SpaceFiltered(buckets, r.size) = {}
       THEN IF r.tries + 1 >= RetryAttempts
            THEN Respond(p, [r EXCEPT !.tries = @ + 1], 507)
            ELSE Goto(p, [r EXCEPT !.tries = @ + 1], "put_select")
       ELSE \E order \in Orders(SpaceFiltered(buckets, r.size)) :
               Goto(p, [r EXCEPT !.cands = order], "put_strategy")
    /\ UNCHANGED <<buckets, dbStats, mappings, objects, backend, sessions, uploads,
                   strategy, rrCounter, ring, nreq, nrep, lastStatus, managerVars, archiveVars, gatewayVars>>

\* the strategy call: consistent-hash rebuilds the shared ring and releases
\* the write lock before it searches, the others answer in one step
PutStrategy(p) ==
    /\ pc[p] = "put_strategy"
    /\ LET r == req[p] IN
       IF strategy = "consistent-hash"
       THEN /\ ring' = r.cands
            /\ Goto(p, r, "put_ring")
            /\ UNCHANGED rrCounter
       ELSE \E res \in StrategyResults(strategy, r.cands, r.key, buckets, rrCounter, ring) :
               /\ rrCounter' = res.rr
               /\ ring' = res.ring
               /\ Goto(p, [r EXCEPT !.target = res.bucket, !.picked = TRUE], "put_create")
    /\ UNCHANGED <<buckets, dbStats, mappings, objects, backend, sessions, uploads,
                   strategy, nreq, nrep, lastStatus, managerVars, archiveVars, gatewayVars>>

\* the search of the ring under the read lock
PutRing(p) ==
    /\ pc[p] = "put_ring"
    /\ Goto(p, [req[p] EXCEPT !.target = RingLookup(ring, req[p].key), !.picked = TRUE],
            "put_create")
    /\ UNCHANGED <<buckets, dbStats, mappings, objects, backend, sessions, uploads,
                   strategy, rrCounter, ring, nreq, nrep, lastStatus, managerVars, archiveVars, gatewayVars>>

PutRequest(p) ==
    \/ StartPut(p)
    \/ PutLookup(p)
    \/ PutSnapshot(p)
    \/ PutStrategy(p)
    \/ PutRing(p)
    \/ PutCreate(p)
    \/ PutUpload(p)

NextLimit == \E p \in Procs : PutRequest(p)

SpecLimit == InitLimit /\ [][NextLimit]_vars

\* C18: the PUT whose class-A increment brings a backend's counter to its
\* limit still uploads to that backend, the backend is unavailable with
\* operation-limit-reached set from that increment on whatever the probes
\* report, and a PUT that arrived after a backend reached its limit is not
\* placed on that backend
C18_LimitReachedPutsElsewhere ==
    [][/\ \A p \in Procs :
             /\ (/\ pc[p] = "put_upload" /\ pc'[p] = "done"
                 /\ Limit(req[p].target, "A") > 0
                 /\ buckets'[req[p].target].operationCountA >= Limit(req[p].target, "A"))
                => /\ req'[p].call = "PUT"
                   /\ buckets'[req[p].target].operationLimitReached
                   /\ ~buckets'[req[p].target].Available
             /\ (pc[p] \in {"put_strategy", "put_ring"} /\ pc'[p] = "put_create")
                => req'[p].target \notin req[p].closed
       /\ \A b \in LimitReached(buckets) :
             b \in LimitReached(buckets') /\ ~buckets'[b].Available]_vars

(***************************************************************************)
(* Multipart uploads                                                       *)
(***************************************************************************)
\* Service.RecordUploadSession: a row with status pending
RecordUploadSession(ss, u, key, b) ==
    [ss EXCEPT ![u] = [key |-> key, bucket |-> b, parts |-> 0, size |-> 0,
                       status |-> "pending"]]

\* UploadSession.BeforeCreate: a new row expires 24 hours after its creation
BeforeCreate(exp, u, t) == [exp EXCEPT ![u] = t + SessionLifetime]

\* Service.UpdateUploadSession: UPDATE ... WHERE upload_id = u
UpdateUploadSession(ss, u, completedParts, st) ==
    IF u \notin UploadIds \/ ss[u] = NoSession THEN ss
    ELSE [ss EXCEPT ![u].parts = completedParts, ![u].status = st]

\* Service.IncrementUploadSessionSize
IncrementUploadSessionSize(ss, u, partSize) ==
    IF u \notin UploadIds \/ ss[u] = NoSession THEN ss
    ELSE [ss EXCEPT ![u].size = @ + partSize]

\* Service.GetUploadSessionSize; the handler goes on with 0 on an error
GetUploadSessionSize(ss, u) == IF ss[u] = NoSession THEN 0 ELSE ss[u].size

\* the backend accepts a part, a completion or an abort only for an upload
\* it has open under that bucket and key
UploadOpen(u, b, k) ==
    uploads[u].state = "open" /\ uploads[u].bucket = b /\ uploads[u].key = k

NewMultipartRequest(p, op, b, k, size, u) ==
    /\ pc[p] \in {"idle", "done"}
    /\ nreq < MaxRequests
    /\ nreq' = nreq + 1
    /\ req' = [req EXCEPT ![p] = [IdleReq EXCEPT !.op = op, !.bucket = b, !.key = k,
                                     !.size = size, !.upload = u, !.payload = nreq + 1]]
    /\ pc' = [pc EXCEPT ![p] = CASE op = "INITIATE" -> "mpi"
                                 [] op = "PART" -> "mpp"
                                 [] op = "COMPLETE" -> "mpc"
                                 [] OTHER -> "mpa"]
    /\ UNCHANGED <<buckets, dbStats, mappings, objects, backend, sessions, uploads,
                   strategy, rrCounter, ring, nrep, lastStatus, managerVars, archiveVars, gatewayVars>>

StartMultipartRequest(p) ==
    \E b \in ReqBuckets, k \in Keys :
        \/ NewMultipartRequest(p, "INITIATE", b, k, 0, 0)
        \/ \E u \in UploadIds, size \in Sizes : NewMultipartRequest(p, "PART", b, k, size, u)
        \/ \E u \in UploadIds : NewMultipartRequest(p, "COMPLETE", b, k, 0, u)
        \/ \E u \in UploadIds : NewMultipartRequest(p, "ABORT", b, k, 0, u)

\* handleMultipartUpload: bucket check, then SelectBucket(key, 0), one
\* attempt per step; no mapping lookup comes first
InitiateSelect(p) ==
    /\ pc[p] = "mpi"
    /\ LET r == req[p] IN
       IF ~GetBucket(r.bucket) \/ ~Virtual(r.bucket)
       THEN Respond(p, r, 404) /\ UNCHANGED <<rrCounter, ring>>
       ELSE \E res \in selectOnce(strategy, r.key, 0, buckets, rrCounter, ring) :
               /\ rrCounter' = res.rr
               /\ ring' = res.ring
               /\ IF res.ok
                  THEN Goto(p, [r EXCEPT !.target = res.bucket, !.picked = TRUE], "mpi_create")
                  ELSE IF r.tries + 1 >= RetryAttempts
                  THEN Respond(p, r, 500)
                  ELSE Goto(p, [r EXCEPT !.tries = @ + 1], "mpi")
    /\ UNCHANGED <<buckets, dbStats, mappings, objects, backend, sessions, uploads,
                   strategy, nreq, nrep, lastStatus, managerVars, archiveVars, gatewayVars>>

InitiateCreate(p) ==
    /\ pc[p] = "mpi_create"
    /\ LET r == req[p] IN
       \/ /\ mappings' = CreateVirtualBucketMapping(mappings, r.bucket, r.key, r.target, r.key)
          /\ Goto(p, r, "mpi_backend")
       \/ /\ UNCHANGED mappings
          /\ Respond(p, r, 500)
    /\ UNCHANGED <<buckets, dbStats, objects, backend, sessions, uploads,
                   strategy, rrCounter, ring, nreq, nrep, lastStatus, managerVars, archiveVars, gatewayVars>>

\* recordBackendOperation(A), CreateMultipartUpload on the backend, which
\* hands out a fresh upload id, and RecordUploadSession, whose error is
\* only logged
InitiateBackend(p) ==
    /\ pc[p] = "mpi_backend"
    /\ LET r == req[p] IN
       \E persisted \in StoreAnswers :
          LET c == recordBackendOperation(buckets, dbStats, r.target, "A", persisted) IN
          /\ buckets' = c.buckets
          /\ dbStats' = c.dbStats
          /\ \/ /\ UNCHANGED <<uploads, sessions, expiresAt>>
                /\ Respond(p, [r EXCEPT !.call = "INITIATE"], 500)
             \/ \E u \in UploadIds :
                   /\ uploads[u] = NoUpload
                   /\ \A v \in UploadIds : v < u => uploads[v] # NoUpload
                   /\ uploads' = [uploads EXCEPT ![u] =
                                     [bucket |-> r.target, key |-> r.key, parts |-> 0,
                                      size |-> 0, state |-> "open"]]
                   /\ \/ /\ sessions' = RecordUploadSession(sessions, u, r.key, r.target)
                         /\ expiresAt' = BeforeCreate(expiresAt, u, now)
                      \/ UNCHANGED <<sessions, expiresAt>>
                   /\ Respond(p, [r EXCEPT !.call = "INITIATE", !.got = u], 200)
    /\ UNCHANGED <<mappings, objects, backend, strategy, rrCounter, ring, nreq, nrep,
                   lastStatus, managerVars, archiveVars, now, removed, watchVars, stopVars>>

\* handleUploadPart: bucket check and mapping lookup
PartLookup(p) ==
    /\ pc[p] = "mpp"
    /\ LET r == req[p] IN
       IF ~GetBucket(r.bucket) \/ ~Virtual(r.bucket) THEN Respond(p, r, 404)
       ELSE IF HasMapping(mappings, r.bucket, r.key)
       THEN Goto(p, [r EXCEPT !.target =
                        GetVirtualBucketMapping(mappings, r.bucket, r.key).rb], "mpp_check")
       ELSE Goto(p, r, "mpp_select")
    /\ UNCHANGED <<buckets, dbStats, mappings, objects, backend, sessions, uploads,
                   strategy, rrCounter, ring, nreq, nrep, lastStatus, managerVars, archiveVars, gatewayVars>>

\* no mapping: SelectBucket(key, contentLength), one attempt per step
PartSelect(p) ==
    /\ pc[p] = "mpp_select"
    /\ LET r == req[p] IN
       \E res \in selectOnce(strategy, r.key, r.size, buckets, rrCounter, ring) :
          /\ rrCounter' = res.rr
          /\ ring' = res.ring
          /\ IF res.ok
             THEN Goto(p, [r EXCEPT !.target = res.bucket, !.picked = TRUE], "mpp_create")
             ELSE IF r.tries + 1 >= RetryAttempts
             THEN Respond(p, r, 500)
             ELSE Goto(p, [r EXCEPT !.tries = @ + 1], "mpp_select")
    /\ UNCHANGED <<buckets, dbStats, mappings, objects, backend, sessions, uploads,
                   strategy, nreq, nrep, lastStatus, managerVars, archiveVars, gatewayVars>>

PartCreate(p) ==
    /\ pc[p] = "mpp_create"
    /\ LET r == req[p] IN
       \/ /\ mappings' = CreateVirtualBucketMapping(mappings, r.bucket, r.key, r.target, r.key)
          /\ Goto(p, r, "mpp_check")
       \/ /\ UNCHANGED mappings
          /\ Respond(p, r, 500)
    /\ UNCHANGED <<buckets, dbStats, objects, backend, sessions, uploads,
                   strategy, rrCounter, ring, nreq, nrep, lastStatus, managerVars, archiveVars, gatewayVars>>

\* abortMultipartUploadInternal: recordBackendOperation(A), the backend
\* abort, and only when that succeeded UpdateUploadSession(u, 0, "aborted").
\* The result is a record [buckets, dbStats, uploads, sessions].
abortMultipartUploadInternal(bs, db, ups, ss, b, k, u, persisted, aborted) ==
    LET c == recordBackendOperation(bs, db, b, "A", persisted)
    IN IF aborted
       THEN [buckets |-> c.buckets, dbStats |-> c.dbStats,
             uploads |-> [ups EXCEPT ![u].state = "aborted"],
             sessions |-> UpdateUploadSession(ss, u, 0, "aborted")]
       ELSE [buckets |-> c.buckets, dbStats |-> c.dbStats, uploads |-> ups, sessions |-> ss]

\* the outcomes of an AbortMultipartUpload call: it can succeed only for an
\* upload the backend has open under that bucket and key
AbortOutcomes(u, b, k) == IF UploadOpen(u, b, k) THEN BOOLEAN ELSE {FALSE}

\* recordBackendOperation(A), then the capacity check of the session's size
\* plus this part against the target's available space; over capacity the
\* upload is aborted and the part refused (EntityTooLarge)
PartCheck(p) ==
    /\ pc[p] = "mpp_check"
    /\ LET r == req[p] IN
       \E persisted \in StoreAnswers :
          LET c == recordBackendOperation(buckets, dbStats, r.target, "A", persisted) IN
          IF GetUploadSessionSize(sessions, r.upload) + r.size
                > GetAvailableSpace(c.buckets, r.target)
          THEN \E persisted2 \in StoreAnswers, aborted \in AbortOutcomes(r.upload, r.target, r.key) :
                  LET a == abortMultipartUploadInternal(c.buckets, c.dbStats, uploads,
                              sessions, r.target, r.key, r.upload, persisted2, aborted) IN
                  /\ buckets' = a.buckets
                  /\ dbStats' = a.dbStats
                  /\ uploads' = a.uploads
                  /\ sessions' = a.sessions
                  /\ Respond(p, [r EXCEPT !.call = "ABORT"], 400)
          ELSE /\ buckets' = c.buckets
               /\ dbStats' = c.dbStats
               /\ UNCHANGED <<uploads, sessions>>
               /\ Goto(p, r, "mpp_upload")
    /\ UNCHANGED <<mappings, objects, backend, strategy, rrCounter, ring, nreq, nrep,
                   lastStatus, managerVars, archiveVars, gatewayVars>>

\* the proxied UploadPart; a 2xx needs the upload open on the backend
PartUpload(p) ==
    /\ pc[p] = "mpp_upload"
    /\ LET r == req[p] IN
       \/ /\ UploadOpen(r.upload, r.target, r.key)
          /\ uploads' = [uploads EXCEPT ![r.upload].parts = @ + 1,
                                        ![r.upload].size = @ + r.size]
          /\ Goto(p, [r EXCEPT !.call = "PART"], "mpp_read")
       \/ /\ UNCHANGED uploads
          /\ Respond(p, [r EXCEPT !.call = "PART"], 500)
    /\ UNCHANGED <<buckets, dbStats, mappings, objects, backend, sessions,
                   strategy, rrCounter, ring, nreq, nrep, lastStatus, managerVars, archiveVars, gatewayVars>>

\* after the 2xx: GetUploadSession; without a row nothing is written
PartRead(p) ==
    /\ pc[p] = "mpp_read"
    /\ LET r == req[p] IN
       IF sessions[r.upload] = NoSession
       THEN Respond(p, r, 200)
       ELSE Goto(p, [r EXCEPT !.count = sessions[r.upload].parts], "mpp_write")
    /\ UNCHANGED <<buckets, dbStats, mappings, objects, backend, sessions, uploads,
                   strategy, rrCounter, ring, nreq, nrep, lastStatus, managerVars, archiveVars, gatewayVars>>

\* UpdateUploadSession(u, session.CompletedParts + 1, "pending"), with the
\* CompletedParts that GetUploadSession read
PartWrite(p) ==
    /\ pc[p] = "mpp_write"
    /\ LET r == req[p] IN
       /\ sessions' = UpdateUploadSession(sessions, r.upload, r.count + 1, "pending")
       /\ Goto(p, r, "mpp_size")
    /\ UNCHANGED <<buckets, dbStats, mappings, objects, backend, uploads,
                   strategy, rrCounter, ring, nreq, nrep, lastStatus, managerVars, archiveVars, gatewayVars>>

\* IncrementUploadSessionSize(u, contentLength), a statement of its own, and
\* the 200
PartSize(p) ==
    /\ pc[p] = "mpp_size"
    /\ LET r == req[p] IN
       /\ sessions' = IncrementUploadSessionSize(sessions, r.upload, r.size)
       /\ Respond(p, r, 200)
    /\ UNCHANGED <<buckets, dbStats, mappings, objects, backend, uploads,
                   strategy, rrCounter, ring, nreq, nrep, lastStatus, managerVars, archiveVars, gatewayVars>>

\* handleCompleteMultipartUpload: bucket check and mapping lookup
CompleteLookup(p) ==
    /\ pc[p] = "mpc"
    /\ LET r == req[p] IN
       IF ~GetBucket(r.bucket) \/ ~Virtual(r.bucket) THEN Respond(p, r, 404)
       ELSE IF ~HasMapping(mappings, r.bucket, r.key) THEN Respond(p, r, 404)
       ELSE Goto(p, [r EXCEPT !.target =
                        GetVirtualBucketMapping(mappings, r.bucket, r.key).rb], "mpc_check")
    /\ UNCHANGED <<buckets, dbStats, mappings, objects, backend, sessions, uploads,
                   strategy, rrCounter, ring, nreq, nrep, lastStatus, managerVars, archiveVars, gatewayVars>>

\* the final check of the session's accumulated size against the target's
\* available space: over capacity the upload is aborted and the completion
\* refused (EntityTooLarge); a size of 0 skips the check
CompleteCheck(p) ==
    /\ pc[p] = "mpc_check"
    /\ LET r == req[p]
           totalSize == GetUploadSessionSize(sessions, r.upload) IN
       IF totalSize > 0 /\ totalSize > GetAvailableSpace(buckets, r.target)
       THEN \E persisted \in StoreAnswers, aborted \in AbortOutcomes(r.upload, r.target, r.key) :
               LET a == abortMultipartUploadInternal(buckets, dbStats, uploads,
                           sessions, r.target, r.key, r.upload, persisted, aborted) IN
               /\ buckets' = a.buckets
               /\ dbStats' = a.dbStats
               /\ uploads' = a.uploads
               /\ sessions' = a.sessions
               /\ Respond(p, [r EXCEPT !.call = "ABORT"], 400)
       ELSE /\ UNCHANGED <<buckets, dbStats, uploads, sessions>>
            /\ Goto(p, r, "mpc_backend")
    /\ UNCHANGED <<mappings, objects, backend, strategy, rrCounter, ring, nreq, nrep,
                   lastStatus, managerVars, archiveVars, gatewayVars>>

\* recordBackendOperation(A) and CompleteMultipartUpload on the backend: the
\* parts become the object
CompleteBackend(p) ==
    /\ pc[p] = "mpc_backend"
    /\ LET r == req[p] IN
       \E persisted \in StoreAnswers :
          LET c == recordBackendOperation(buckets, dbStats, r.target, "A", persisted) IN
          /\ buckets' = c.buckets
          /\ dbStats' = c.dbStats
          /\ \/ /\ UploadOpen(r.upload, r.target, r.key)
                /\ uploads' = [uploads EXCEPT ![r.upload].state = "completed"]
                /\ backend' = [backend EXCEPT ![<<r.target, r.key>>] =
                                  [payload |-> r.payload, size |-> uploads[r.upload].size]]
                /\ Goto(p, [r EXCEPT !.call = "COMPLETE"], "mpc_finish")
             \/ /\ UNCHANGED <<uploads, backend>>
                /\ Respond(p, [r EXCEPT !.call = "COMPLETE"], 500)
    /\ UNCHANGED <<mappings, objects, sessions,
                   strategy, rrCounter, ring, nreq, nrep, lastStatus, managerVars, archiveVars, gatewayVars>>

\* the sizes HeadObject can give the handler: the stored size, or 0 when
\* the call fails
HeadSizes(b, k) == {backend[<<b, k>>].size, 0}

\* recordBackendOperation(B), HeadObject for the size, RecordObject,
\* UpdateUsedSize when the size is positive, and
\* UpdateUploadSession(u, len(parts), "completed")
CompleteFinish(p) ==
    /\ pc[p] = "mpc_finish"
    /\ LET r == req[p] IN
       \E persisted \in StoreAnswers, objectSize \in HeadSizes(r.target, r.key),
          nparts \in 0..1 :
          LET c == recordBackendOperation(buckets, dbStats, r.target, "B", persisted) IN
          /\ dbStats' = c.dbStats
          /\ objects' = RecordObject(objects, r.key, r.target, objectSize)
          /\ buckets' = IF objectSize > 0
                        THEN UpdateUsedSize(c.buckets, r.target, objectSize)
                        ELSE c.buckets
          /\ sessions' = UpdateUploadSession(sessions, r.upload, nparts, "completed")
          /\ Respond(p, r, 200)
    /\ UNCHANGED <<mappings, backend, uploads, strategy, rrCounter, ring, nreq, nrep,
                   lastStatus, managerVars, archiveVars, gatewayVars>>

\* handleAbortMultipartUpload: bucket check and mapping lookup
AbortLookup(p) ==
    /\ pc[p] = "mpa"
    /\ LET r == req[p] IN
       IF ~GetBucket(r.bucket) THEN Respond(p, r, 404)
       ELSE IF ~Virtual(r.bucket) THEN Respond(p, r, 204)
       ELSE IF ~HasMapping(mappings, r.bucket, r.key) THEN Respond(p, r, 204)
       ELSE Goto(p, [r EXCEPT !.target =
                        GetVirtualBucketMapping(mappings, r.bucket, r.key).rb], "mpa_backend")
    /\ UNCHANGED <<buckets, dbStats, mappings, objects, backend, sessions, uploads,
                   strategy, rrCounter, ring, nreq, nrep, lastStatus, managerVars, archiveVars, gatewayVars>>

\* recordBackendOperation(A) and AbortMultipartUpload, whose error is logged
AbortBackend(p) ==
    /\ pc[p] = "mpa_backend"
    /\ LET r == req[p] IN
       \E persisted \in StoreAnswers, aborted \in AbortOutcomes(r.upload, r.target, r.key) :
          LET c == recordBackendOperation(buckets, dbStats, r.target, "A", persisted) IN
          /\ buckets' = c.buckets
          /\ dbStats' = c.dbStats
          /\ uploads' = IF aborted THEN [uploads EXCEPT ![r.upload].state = "aborted"]
                        ELSE uploads
          /\ Goto(p, [r EXCEPT !.call = "ABORT"], "mpa_session")
    /\ UNCHANGED <<mappings, objects, backend, sessions, strategy, rrCounter, ring,
                   nreq, nrep, lastStatus, managerVars, archiveVars, gatewayVars>>

\* UpdateUploadSession(u, 0, "aborted"), whatever the backend answered, and
\* DeleteVirtualBucketFileMapping
AbortSession(p) ==
    /\ pc[p] = "mpa_session"
    /\ LET r == req[p] IN
       /\ sessions' = UpdateUploadSession(sessions, r.upload, 0, "aborted")
       /\ mappings' = DeleteVirtualBucketFileMapping(mappings, r.bucket, r.key)
       /\ Respond(p, r, 204)
    /\ UNCHANGED <<buckets, dbStats, objects, backend, uploads,
                   strategy, rrCounter, ring, nreq, nrep, lastStatus, managerVars, archiveVars, gatewayVars>>

MultipartRequest(p) ==
    \/ StartMultipartRequest(p)
    \/ InitiateSelect(p)
    \/ InitiateCreate(p)
    \/ InitiateBackend(p)
    \/ PartLookup(p)
    \/ PartSelect(p)
    \/ PartCreate(p)
    \/ PartCheck(p)
    \/ PartUpload(p)
    \/ PartRead(p)
    \/ PartWrite(p)
    \/ PartSize(p)
    \/ CompleteLookup(p)
    \/ CompleteCheck(p)
    \/ CompleteBackend(p)
    \/ CompleteFinish(p)
    \/ AbortLookup(p)
    \/ AbortBackend(p)
    \/ AbortSession(p)

NextMp == \E p \in Procs : MultipartRequest(p)

SpecMp == Init /\ [][NextMp]_vars

\* C10: the status of an upload session moves only from pending to completed
\* or to aborted, and a completed or aborted session keeps its status under
\* every later upload-part, complete and abort request
C10_SessionStatusTerminal ==
    [][\A u \in UploadIds :
          /\ sessions[u].status \in {"completed", "aborted"}
                => sessions'[u].status = sessions[u].status
          /\ sessions[u].status = "pending"
                => sessions'[u].status \in {"pending", "completed", "aborted"}]_vars

\* the upload-part requests of upload u still between the backend's answer
\* and their last session update
PartsInFlight(u) ==
    {p \in Procs : pc[p] \in {"mpp_read", "mpp_write", "mpp_size"} /\ req[p].upload = u}

\* C11: an upload-part whose size added to the session's size exceeds the
\* target's available space is refused with EntityTooLarge (400), no part
\* reaches the backend, and a pending session is aborted afterwards whether
\* the backend AbortMultipartUpload call succeeded or failed
C11_OverCapacityPartAborts ==
    [][\A p \in Procs :
          (/\ pc[p] = "mpp_check"
           /\ sessions[req[p].upload].status = "pending"
           /\ UploadOpen(req[p].upload, req[p].target, req[p].key)
           /\ GetUploadSessionSize(sessions, req[p].upload) + req[p].size
                 > GetAvailableSpace(buckets', req[p].target)
           /\ pc'[p] # pc[p])
          => /\ pc'[p] = "done"
             /\ req'[p].code = 400
             /\ uploads'[req[p].upload].size = uploads[req[p].upload].size
             /\ sessions'[req[p].upload].status = "aborted"]_vars

\* C12: once the upload-part requests of an open upload with a pending
\* session have all finished, the session's completed-parts is the number
\* of parts the backend accepted and its size is the sum of their lengths
C12_PartCountersExact ==
    \A u \in UploadIds :
        (/\ uploads[u].state = "open"
         /\ sessions[u].status = "pending"
         /\ PartsInFlight(u) = {})
        => /\ sessions[u].parts = uploads[u].parts
           /\ sessions[u].size = uploads[u].size

\* C13: while an upload is open on the backend that issued its upload-id and
\* its session is pending, the row that the mapping lookup of upload-part,
\* complete and abort finds for the upload's key names the issuing backend
C13_UploadResolvesToIssuer ==
    \A u \in UploadIds, vb \in VirtualBuckets :
        (/\ uploads[u].state = "open"
         /\ sessions[u].status = "pending"
         /\ HasMapping(mappings, vb, uploads[u].key))
        => GetVirtualBucketMapping(mappings, vb, uploads[u].key).rb = uploads[u].bucket

\* C14: an abort-multipart request on a virtual bucket for the key of an
\* upload session is answered 204 and, when it is answered, the session is
\* marked aborted and (bucket, key) has no mapping row, whatever the backend
\* answered to AbortMultipartUpload
C14_AbortAlways204 ==
    [][\A p \in Procs :
          (/\ req[p].op = "ABORT"
           /\ req[p].bucket \in VirtualBuckets
           /\ pc[p] \in {"mpa", "mpa_session"}
           /\ pc'[p] = "done"
           /\ sessions[req[p].upload] # NoSession
           /\ sessions[req[p].upload].key = req[p].key)
          => /\ req'[p].code = 204
             /\ sessions'[req[p].upload].status = "aborted"
             /\ ~HasMapping(mappings', req[p].bucket, req[p].key)]_vars

\* C15: when a PUT of (virtual bucket, key) is answered 200 and the key has
\* one mapping row, that row names the backend and the real key the payload
\* was written to, and the backend holds the payload there, so that a GET of
\* the key returns it; fresh keys, overwrites and copy-created mappings alike
C15_PutThenGetResolves ==
    [][\A p \in Procs :
          (/\ pc[p] = "put_upload"
           /\ pc'[p] = "done"
           /\ req'[p].code = 200
           /\ Cardinality(RowsFor(mappings', req[p].bucket, req[p].key)) = 1)
          => LET m == GetVirtualBucketMapping(mappings', req[p].bucket, req[p].key) IN
             /\ m.rb = req[p].target
             /\ backend'[<<m.rb, m.rk>>].payload = req[p].payload]_vars

\* C16: a copy reads the source's mapping and, answered 200, has appended
\* one row for the destination that names the real bucket and real key of
\* the source row it read; every row that was there stays as it was, and
\* no step of the copy touches a backend, an object record, a counter or a
\* backend's used bytes
C16_CopyOnlyAddsMapping ==
    [][\A p \in Procs :
          /\ (pc[p] = "copy" /\ pc'[p] = "copy_create")
             => LET m == GetVirtualBucketMapping(mappings, req[p].src[1], req[p].src[2]) IN
                /\ req'[p].target = m.rb
                /\ req'[p].realKey = m.rk
                /\ mappings' = mappings
          /\ (pc[p] = "copy_create" /\ pc'[p] = "done" /\ req'[p].code = 200)
             => /\ Len(mappings') = Len(mappings) + 1
                /\ SubSeq(mappings', 1, Len(mappings)) = mappings
                /\ mappings'[Len(mappings')] =
                      Mapping(req[p].bucket, req[p].key, req[p].target, req[p].realKey)
          /\ (pc[p] \in {"copy", "copy_create"} /\ pc'[p] # pc[p])
             => /\ backend' = backend
                /\ buckets' = buckets
                /\ dbStats' = dbStats
                /\ objects' = objects
                /\ req'[p].call = "none"]_vars

\* a copy was answered 200 and its destination resolves to a stored object
\* under another key
C16_Witness ==
    \E p \in Procs :
        /\ pc[p] = "done" /\ req[p].op = "PUT" /\ req[p].call = "none" /\ req[p].code = 200
        /\ HasMapping(mappings, req[p].bucket, req[p].key)
        /\ LET m == GetVirtualBucketMapping(mappings, req[p].bucket, req[p].key) IN
           /\ m.rk # req[p].key
           /\ backend[<<m.rb, m.rk>>] # NoStored

\* C17: a HEAD of a key of a virtual bucket whose mapping points at an
\* object that a backend holds (so that a GET of the key succeeds) is
\* answered 200, without a backend call
C17_HeadWhereGetSucceeds ==
    [][\A p \in Procs :
          (/\ pc[p] = "head"
           /\ pc'[p] = "done"
           /\ req[p].bucket \in VirtualBuckets
           /\ HasMapping(mappings, req[p].bucket, req[p].key)
           /\ LET m == GetVirtualBucketMapping(mappings, req[p].bucket, req[p].key) IN
              backend[<<m.rb, m.rk>>] # NoStored)
          => /\ req'[p].code = 200
             /\ req'[p].call = "none"
             /\ backend' = backend]_vars

\* the persisted increments whose returned count a process still holds
Returned(b, cat) ==
    {p \in Procs : /\ pc[p] \in {"quota_set", "done"}
                   /\ req[p].op = "record"
                   /\ req[p].target = b
                   /\ req[p].cat = cat
                   /\ req[p].count > 0}

\* C19: every persisted increment of a class on a bucket raises that
\* bucket's persisted counter of that class by exactly one, leaves every
\* other counter as it was and returns the counter's new value; nothing else
\* writes the persisted counters, and two increments of the same class on
\* the same bucket, concurrent or not, never return the same value nor a
\* value above the persisted counter
C19_IncrementsLinearizable ==
    /\ [](\A b \in RealBuckets, cat \in Categories :
             \A p, q \in Returned(b, cat) :
                /\ req[p].count <= PersistedCount(dbStats, b, cat)
                /\ (p # q => req[p].count # req[q].count))
    /\ [][\/ dbStats' = dbStats
          \/ \E p \in Procs, b \in RealBuckets, cat \in Categories :
                /\ pc[p] \in {"idle", "done"}
                /\ pc'[p] = "quota_set"
                /\ req'[p].target = b
                /\ req'[p].cat = cat
                /\ PersistedCount(dbStats', b, cat) = PersistedCount(dbStats, b, cat) + 1
                /\ req'[p].count = PersistedCount(dbStats, b, cat) + 1
                /\ \A b2 \in Buckets, cat2 \in Categories :
                      <<b2, cat2>> # <<b, cat>>
                      => PersistedCount(dbStats', b2, cat2) = PersistedCount(dbStats, b2, cat2)]_vars

\* two increments of one class on one bucket are in flight together, each
\* holding its own returned count, on a counter that did not start at zero
C19_Witness ==
    \E p, q \in Procs, b \in RealBuckets, cat \in Categories :
        /\ pc[p] = "quota_set" /\ pc[q] = "quota_set"
        /\ {p, q} \subseteq Returned(b, cat)
        /\ req[p].count = LimitA("b1") + 1
        /\ req[q].count = LimitA("b1") + 2
        /\ PersistedCount(dbStats, b, cat) = LimitA("b1") + 2

\* C20: a recording whose increment could not be persisted leaves the
\* persisted counters as they were and raises the backend's in-memory
\* counter of that class by exactly one, the other class's counter staying
\* as it was; when the raised counter has reached the class's positive limit
\* the backend is unavailable and marked operation-limit-reached
C20_PersistFailureCountsInMemory ==
    [][\A p \in Procs :
          (/\ pc[p] \in {"idle", "done"}
           /\ pc'[p] = "done"
           /\ Stepped(p)
           /\ req'[p].op = "record")
          => LET b == req'[p].target
                 cat == req'[p].cat
                 other == IF cat = "A" THEN "B" ELSE "A"
                 count == IF cat = "A" THEN buckets'[b].operationCountA
                          ELSE buckets'[b].operationCountB
                 countOther == IF other = "A" THEN buckets'[b].operationCountA
                               ELSE buckets'[b].operationCountB
             IN /\ dbStats' = dbStats
                /\ count = OperationCount(b, cat) + 1
                /\ countOther = OperationCount(b, other)
                /\ \A b2 \in Buckets \ {b} : buckets'[b2] = buckets[b2]
                /\ (Limit(b, cat) > 0 /\ count >= Limit(b, cat))
                   => /\ ~buckets'[b].Available
                      /\ buckets'[b].operationLimitReached]_vars

\* a backend was disabled by recordings that were never persisted: its
\* in-memory count has reached the limit while the persisted count is below
C20_Witness ==
    \E p \in Procs :
        /\ pc[p] = "done" /\ req[p].op = "record" /\ req[p].count = 0
        /\ LET b == req[p].target
               cat == req[p].cat
           IN /\ Limit(b, cat) > 0
              /\ OperationCount(b, cat) = Limit(b, cat)
              /\ PersistedCount(dbStats, b, cat) < Limit(b, cat)
              /\ ~buckets[b].Available
              /\ buckets[b].operationLimitReached

(***************************************************************************)
(* Strategy hot-swap: picks while the configuration callback replaces the  *)
(* balancer's strategy.  Balancer.strategy is a plain field: selectOnce    *)
(* reads it for the strategy call and reads it again for the metric, and   *)
(* SetStrategy assigns it, none of them under a lock.                      *)
(***************************************************************************)
InitSwap ==
    /\ buckets = [b \in Buckets |-> NewBucketInfo]
    /\ dbStats = [b \in Buckets |-> [A |-> 0, B |-> 0]]
    /\ mappings = <<>>
    /\ objects = [k \in Keys |-> NoObject]
    /\ backend = [bk \in RealBuckets \X Keys |-> NoStored]
    /\ sessions = [u \in UploadIds |-> NoSession]
    /\ uploads = [u \in UploadIds |-> NoUpload]
    /\ strategy \in Strategies
    /\ rrCounter = 0
    /\ ring = <<>>
    /\ pc = [p \in Procs |-> "idle"]
    /\ req = [p \in Procs |-> IdleReq]
    /\ nreq = 0
    /\ nrep = 0
    /\ lastStatus = [b \in RealBuckets |-> NoStatus]
    /\ InitManager
    /\ InitArchiver
    /\ InitGateway

\* selectOnce l.97: b.strategy is read and its SelectBucket called; the
\* record notes the strategy that made the selection
PickSelect(p) ==
    /\ pc[p] = "pick_strategy"
    /\ LET r == req[p] IN
       \E res \in StrategyResults(strategy, r.cands, r.key, buckets, rrCounter, ring) :
          /\ rrCounter' = res.rr
          /\ ring' = res.ring
          /\ Goto(p, [r EXCEPT !.target = res.bucket, !.strat = strategy], "pick_metric")
    /\ UNCHANGED <<buckets, dbStats, mappings, objects, backend, sessions, uploads,
                   strategy, nreq, nrep, lastStatus, managerVars, archiveVars, gatewayVars>>

\* selectOnce l.103-105: RecordBalancerDecision(b.strategy.Name(), selected),
\* with b.strategy read again
PickMetric(p) ==
    /\ pc[p] = "pick_metric"
    /\ Goto(p, [req[p] EXCEPT !.tag = strategy, !.picked = TRUE, !.code = 200], "done")
    /\ UNCHANGED <<buckets, dbStats, mappings, objects, backend, sessions, uploads,
                   strategy, rrCounter, ring, nreq, nrep, lastStatus, managerVars, archiveVars, gatewayVars>>

\* Balancer.SetStrategy(name): a new strategy instance (counter 0, empty
\* ring) is assigned to the field
SetStrategy(name) ==
    /\ name # strategy
    /\ strategy' = name
    /\ rrCounter' = 0
    /\ ring' = <<>>
    /\ UNCHANGED <<buckets, dbStats, mappings, objects, backend, sessions, uploads,
                   pc, req, nreq, nrep, lastStatus, managerVars, archiveVars, gatewayVars>>

NextSwap ==
    \/ \E p \in Procs : PickStart(p) \/ PickSnapshot(p) \/ PickSelect(p) \/ PickMetric(p)
    \/ \E name \in Strategies : SetStrategy(name)

SpecSwap == InitSwap /\ [][NextSwap]_vars

\* C21: every pick that returned a backend recorded its balancer decision
\* under the name of the strategy that made the selection
C21_PickUsesOneStrategy ==
    \A p \in Procs :
        (pc[p] = "done" /\ req[p].op = "pick" /\ req[p].picked)
        => req[p].tag = req[p].strat

(***************************************************************************)
(* Configuration reload: Manager.UpdateConfig on the watcher's goroutine,  *)
(* with callers of Balancer.SelectBucket running beside it.  One attempt   *)
(* of SelectBucket is one step: GetAvailableBuckets holds the manager's    *)
(* read lock, UpdateConfig holds the write lock until the table is rebuilt.*)
(***************************************************************************)
\* number of UpdateConfig calls in one behaviour
MaxReloads == 2

\* Manager.checkIfRestartNeeded
checkIfRestartNeeded(old, new) == Endpoint(old) # Endpoint(new)

\* the entries the rebuild loop has made when it reaches entry i of the list
Rebuilt(i) == {ConfigBuckets[j] : j \in 1..(i - 1)}

\* Manager.UpdateConfig from m.mu.Lock() to m.mu.Unlock(): the new config is
\* stored, the monitors are stopped and recreated, and after a significant
\* change the table is emptied and refilled; createS3Client can fail at any
\* entry, and then the old config is put back and the call returns
UpdateConfigTo(new) ==
    /\ upd.pc = "idle"
    /\ upd.calls < MaxReloads
    /\ IF checkIfRestartNeeded(config, new)
       THEN \E failed \in 0..Len(ConfigBuckets) :
               /\ monitors' = "stopped"
               /\ buckets' = [b \in Buckets |-> NewBucketInfo]
               /\ IF failed = 0
                  THEN /\ table' = Rebuilt(Len(ConfigBuckets) + 1)
                       /\ config' = new
                       /\ upd' = [pc |-> "load", calls |-> upd.calls + 1, err |-> FALSE]
                  ELSE /\ table' = Rebuilt(failed)
                       /\ config' = config
                       /\ upd' = [pc |-> "idle", calls |-> upd.calls + 1, err |-> TRUE]
               /\ infoConfig' = [b \in Buckets |-> IF b \in table' THEN new
                                                    ELSE infoConfig[b]]
       ELSE /\ monitors' = "stopped"
            /\ config' = new
            /\ upd' = [pc |-> "load", calls |-> upd.calls + 1, err |-> FALSE]
            /\ UNCHANGED <<buckets, table, infoConfig>>
    /\ UNCHANGED <<dbStats, mappings, objects, backend, sessions, uploads,
                   strategy, rrCounter, ring, pc, req, nreq, nrep, lastStatus, archiveVars, gatewayVars>>

\* the file watcher hands UpdateConfig a configuration
UpdateConfigLocked == \E new \in Configs : UpdateConfigTo(new)

\* Manager.UpdateConfig, after the unlock: m.loadOperationCounts()
UpdateConfigLoad ==
    /\ upd.pc = "load"
    /\ buckets' = [b \in Buckets |-> IF b \in table
                                     THEN loadOperationCounts(buckets[b], b, dbStats)
                                     ELSE buckets[b]]
    /\ upd' = [upd EXCEPT !.pc = "start"]
    /\ UNCHANGED <<dbStats, mappings, objects, backend, sessions, uploads,
                   strategy, rrCounter, ring, pc, req, nreq, nrep, lastStatus,
                   config, table, monitors, infoConfig, archiveVars, gatewayVars>>

\* Manager.UpdateConfig, the end: m.startMonitors() and return nil
UpdateConfigStart ==
    /\ upd.pc = "start"
    /\ monitors' = "running"
    /\ upd' = [upd EXCEPT !.pc = "idle"]
    /\ UNCHANGED <<buckets, dbStats, mappings, objects, backend, sessions, uploads,
                   strategy, rrCounter, ring, pc, req, nreq, nrep, lastStatus,
                   config, table, infoConfig, archiveVars, gatewayVars>>

\* the candidates of one attempt: the table's entries that GetAvailableBuckets
\* returns and the space filter keeps
Candidates(tbl, bs, size) == {b \in SpaceFiltered(bs, size) : b \in tbl}

\* a caller enters Balancer.SelectBucket(key, size)
SelectBucketCall(p) ==
    /\ pc[p] \in {"idle", "done"}
    /\ nreq < MaxRequests
    /\ nreq' = nreq + 1
    /\ \E k \in Keys, size \in Sizes :
          Goto(p, [IdleReq EXCEPT !.op = "pick", !.key = k, !.size = size], "pick_attempt")
    /\ UNCHANGED <<buckets, dbStats, mappings, objects, backend, sessions, uploads,
                   strategy, rrCounter, ring, nrep, lastStatus, managerVars, archiveVars, gatewayVars>>

\* an attempt that gives up at the first failure
PickAttempt_NoRetry(p) ==
    /\ pc[p] = "pick_attempt"
    /\ LET r == req[p] IN
       IF Candidates(table, buckets, r.size) = {}
       THEN /\ Goto(p, [r EXCEPT !.tries = @ + 1, !.code = 507], "done")
            /\ UNCHANGED <<rrCounter, ring>>
       ELSE \E order \in Orders(Candidates(table, buckets, r.size)) :
            \E res \in StrategyResults(strategy, order, r.key, buckets, rrCounter, ring) :
               /\ rrCounter' = res.rr
               /\ ring' = res.ring
               /\ Goto(p, [r EXCEPT !.cands = order, !.target = res.bucket,
                                    !.picked = TRUE, !.code = 200], "done")
    /\ UNCHANGED <<buckets, dbStats, mappings, objects, backend, sessions, uploads,
                   strategy, nreq, nrep, lastStatus, managerVars, archiveVars, gatewayVars>>

\* one round of the loop of Balancer.SelectBucket: selectOnce, and on its
\* error either the sleep before the next round or the return of the error
PickAttempt(p) ==
    /\ pc[p] = "pick_attempt"
    /\ LET r == req[p] IN
       IF Candidates(table, buckets, r.size) = {}
       THEN /\ IF r.tries + 1 >= RetryAttempts
               THEN Goto(p, [r EXCEPT !.tries = @ + 1, !.code = 507], "done")
               ELSE Goto(p, [r EXCEPT !.tries = @ + 1], "pick_attempt")
            /\ UNCHANGED <<rrCounter, ring>>
       ELSE \E order \in Orders(Candidates(table, buckets, r.size)) :
            \E res \in StrategyResults(strategy, order, r.key, buckets, rrCounter, ring) :
               /\ rrCounter' = res.rr
               /\ ring' = res.ring
               /\ Goto(p, [r EXCEPT !.cands = order, !.target = res.bucket,
                                    !.picked = TRUE, !.code = 200], "done")
    /\ UNCHANGED <<buckets, dbStats, mappings, objects, backend, sessions, uploads,
                   strategy, nreq, nrep, lastStatus, managerVars, archiveVars, gatewayVars>>

\* the gateway after its start: the persisted counts loaded, any strategy
InitReload ==
    /\ dbStats \in PersistedAtStart
    /\ buckets = [b \in Buckets |-> loadOperationCounts(NewBucketInfo, b, dbStats)]
    /\ mappings = <<>>
    /\ objects = [k \in Keys |-> NoObject]
    /\ backend = [bk \in RealBuckets \X Keys |-> NoStored]
    /\ sessions = [u \in UploadIds |-> NoSession]
    /\ uploads = [u \in UploadIds |-> NoUpload]
    /\ strategy \in {"least-space", "round-robin"}
    /\ rrCounter = 0
    /\ ring = <<>>
    /\ pc = [p \in Procs |-> "idle"]
    /\ req = [p \in Procs |-> IdleReq]
    /\ nreq = 0
    /\ nrep = 0
    /\ lastStatus = [b \in RealBuckets |-> NoStatus]
    /\ InitManager
    /\ InitArchiver
    /\ InitGateway

NextReload ==
    \/ UpdateConfigLocked
    \/ UpdateConfigLoad
    \/ UpdateConfigStart
    \/ \E p \in Procs : SelectBucketCall(p) \/ PickAttempt(p)

SpecReload == InitReload /\ [][NextReload]_vars

\* C22: an UpdateConfig call that returns an error leaves the backend
\* table with its entries, the active configuration and the monitors as
\* they were before the call
C22_FailedUpdateChangesNothing ==
    [][(upd'.calls # upd.calls /\ upd'.err)
       => /\ table' = table
          /\ buckets' = buckets
          /\ config' = config
          /\ monitors' = monitors]_vars

\* persisted count of the class at or above the class's positive limit
PersistedAtLimit(b) ==
    \E cat \in Categories :
        Limit(b, cat) > 0 /\ PersistedCount(dbStats, b, cat) >= Limit(b, cat)

\* C23: once an UpdateConfig call has rebuilt the table without an error,
\* no attempt returns a backend whose persisted count is at or above its
\* limit, and when the call has returned every entry of the table holds the
\* persisted counts and an entry at its limit is unavailable and marked
C23_RebuildReloadsCounters ==
    /\ [](\A b \in table \cap RealBuckets :
             (upd.calls > 0 /\ ~upd.err /\ upd.pc = "idle")
             => /\ buckets[b].operationCountA = dbStats[b].A
                /\ buckets[b].operationCountB = dbStats[b].B
                /\ PersistedAtLimit(b)
                   => ~buckets[b].Available /\ buckets[b].operationLimitReached)
    /\ [][\A p \in Procs :
             (/\ pc[p] = "pick_attempt"
              /\ pc'[p] = "done"
              /\ req'[p].picked
              /\ upd.calls > 0
              /\ ~upd.err)
             => ~PersistedAtLimit(req'[p].target)]_vars

\* C30: a round of SelectBucket is made only while fewer than retry-attempts
\* rounds have failed; it takes its candidates from the table as it is at
\* that round; with a candidate it returns one of them at once, without
\* one it counts a failed round and returns the error exactly when that was
\* round retry-attempts; a call that returned an error made retry-attempts
\* rounds
C30_PickRetries ==
    /\ [](\A p \in Procs :
             (pc[p] = "done" /\ req[p].op = "pick" /\ ~req[p].picked)
             => req[p].tries = RetryAttempts)
    /\ [][\A p \in Procs :
             (pc[p] = "pick_attempt" /\ Stepped(p))
             => /\ req[p].tries < RetryAttempts
                /\ IF Candidates(table, buckets, req[p].size) = {}
                   THEN /\ req'[p].tries = req[p].tries + 1
                        /\ ~req'[p].picked
                        /\ pc'[p] = IF req'[p].tries = RetryAttempts
                                    THEN "done" ELSE "pick_attempt"
                   ELSE /\ pc'[p] = "done"
                        /\ req'[p].picked
                        /\ req'[p].tries = req[p].tries
                        /\ req'[p].target \in Candidates(table, buckets, req[p].size)]_vars

\* a call whose first round found no candidate in a table that a failed
\* update had left empty, and whose second round returned a backend of the
\* table a later update rebuilt
C30_Witness ==
    \E p \in Procs :
        /\ pc[p] = "done" /\ req[p].op = "pick" /\ req[p].picked
        /\ req[p].tries = 1
        /\ upd.calls = 2

\* C29: under round-robin, two picks that drew counter values less than n
\* apart over the same set of n candidates returned different backends
C29_RoundRobinDistinct ==
    \A p, q \in Procs :
        (/\ strategy = "round-robin"
         /\ p # q
         /\ pc[p] = "done" /\ req[p].op = "pick" /\ req[p].picked
         /\ pc[q] = "done" /\ req[q].op = "pick" /\ req[q].picked
         /\ Range(req[p].cands) = Range(req[q].cands)
         /\ req[p].count < req[q].count
         /\ req[q].count - req[p].count < Len(req[p].cands))
        => req[p].target # req[q].target

(***************************************************************************)
(* The strategies as functions: one caller hands a strategy a candidate    *)
(* list and a key, one call at a time.  The consistent-hash strategy reads *)
(* nothing of a candidate but its name, so its lists are drawn from three  *)
(* names; least-space reads the candidates' space, so its lists are drawn  *)
(* from the backends GetAvailableBuckets returns.                          *)
(***************************************************************************)
HashBuckets == {"b1", "b2", "b3"}
HashKeys == {"k1", "k2", "k3"}

\* the task that calls the strategies
Caller == 1

\* ConsistentHashStrategy.SelectBucket(buckets, key, size), alone
ConsistentHashCall ==
    /\ nreq < MaxRequests
    /\ nreq' = nreq + 1
    /\ \E S \in SUBSET HashBuckets \ {{}} : \E order \in Orders(S) : \E k \in HashKeys :
          /\ ring' = order
          /\ Goto(Caller, [IdleReq EXCEPT !.op = "select", !.strat = "consistent-hash",
                              !.key = k, !.cands = order, !.target = RingLookup(order, k),
                              !.picked = TRUE], "done")
    /\ UNCHANGED <<buckets, dbStats, mappings, objects, backend, sessions, uploads,
                   strategy, rrCounter, nrep, lastStatus, managerVars, archiveVars, gatewayVars>>

\* LeastSpaceStrategy.SelectBucket(buckets, key, size), alone
LeastSpaceCall ==
    /\ nreq < MaxRequests
    /\ nreq' = nreq + 1
    /\ \E S \in SUBSET GetAvailableBuckets(buckets) \ {{}} : \E order \in Orders(S) :
          Goto(Caller, [IdleReq EXCEPT !.op = "select", !.strat = "least-space",
                           !.cands = order, !.target = LeastSpaceSelect(order, buckets),
                           !.picked = TRUE], "done")
    /\ UNCHANGED <<buckets, dbStats, mappings, objects, backend, sessions, uploads,
                   strategy, rrCounter, ring, nrep, lastStatus, managerVars, archiveVars, gatewayVars>>

\* the backends in any state the monitors can leave them in
InitSelect ==
    /\ buckets \in BucketStates
    /\ dbStats = [b \in Buckets |-> [A |-> 0, B |-> 0]]
    /\ mappings = <<>>
    /\ objects = [k \in Keys |-> NoObject]
    /\ backend = [bk \in RealBuckets \X Keys |-> NoStored]
    /\ sessions = [u \in UploadIds |-> NoSession]
    /\ uploads = [u \in UploadIds |-> NoUpload]
    /\ strategy = "least-space"
    /\ rrCounter = 0
    /\ ring = <<>>
    /\ pc = [p \in Procs |-> "idle"]
    /\ req = [p \in Procs |-> IdleReq]
    /\ nreq = 0
    /\ nrep = 0
    /\ lastStatus = [b \in RealBuckets |-> NoStatus]
    /\ InitManager
    /\ InitArchiver
    /\ InitGateway

NextSelect == ConsistentHashCall \/ LeastSpaceCall

SpecSelect == InitSelect /\ [][NextSelect]_vars

Selected(p, strat) ==
    pc[p] = "done" /\ req[p].op = "select" /\ req[p].strat = strat

C27_RemovalKeepsSelection ==
    \A p \in Procs :
        Selected(p, "consistent-hash")
        => \A gone \in Range(req[p].cands) \ {req[p].target} :
              \A order \in Orders(Range(req[p].cands) \ {gone}) :
                 RingLookup(order, req[p].key) = req[p].target

\* a selection from three candidates that is neither the head nor the last
\* of the list
C27_Witness ==
    \E p \in Procs :
        /\ Selected(p, "consistent-hash")
        /\ Len(req[p].cands) = 3
        /\ req[p].target = req[p].cands[2]

\* C28: the backend least-space returned holds no more bytes than any
\* other candidate, and every candidate before it in the list holds more
C28_LeastSpaceSmallestUsed ==
    \A p \in Procs :
        Selected(p, "least-space")
        => \E i \in 1..Len(req[p].cands) :
              /\ req[p].cands[i] = req[p].target
              /\ \A j \in 1..Len(req[p].cands) :
                    buckets[req[p].cands[j]].UsedSize >= buckets[req[p].target].UsedSize
              /\ \A j \in 1..(i - 1) :
                    buckets[req[p].cands[j]].UsedSize > buckets[req[p].target].UsedSize

(***************************************************************************)
(* Monthly archive: the MonthlyArchiver of a gateway that is started and   *)
(* stopped while the clock runs and the handlers record class-A operations.*)
(* The rows carry the class-A column; the class-B column is computed the   *)
(* same way from its own counter.  ArchiveMonthlyStats reads bucket_stats  *)
(* and the earlier rows once and then writes, and is taken as one step.    *)
(***************************************************************************)
\* the value of a row in the sum, a missing row counting nothing
RowCount(rows, b, m) == IF rows[<<b, m>>] = NoRow THEN 0 ELSE rows[<<b, m>>]

\* the sum of the archived increments of bucket b over the months up to m
RECURSIVE ArchivedUpTo(_, _, _)
ArchivedUpTo(rows, b, m) ==
    IF m < 0 THEN 0 ELSE RowCount(rows, b, m) + ArchivedUpTo(rows, b, m - 1)

\* Service.ArchiveMonthlyStats(year, month): for every bucket_stats row the
\* cumulative count minus the sum of the rows of the earlier months, clamped
\* at 0, upserted as the row of the month
ArchiveMonthlyStats(rows, db, m) ==
    [bm \in Buckets \X Months |->
        IF bm[2] = m
        THEN LET increment == db[bm[1]].A - ArchivedUpTo(rows, bm[1], m - 1)
             IN IF increment < 0 THEN 0 ELSE increment
        ELSE rows[bm]]

\* main: NewMonthlyArchiver and MonthlyArchiver.Start, whose first act is
\* archiveLastMonth()
ArchiverStart ==
    /\ archiver = "down"
    /\ archiver' = "up"
    /\ lastArchivedDate' = 0
    /\ monthlyStats' = ArchiveMonthlyStats(monthlyStats, dbStats, clock.month - 1)
    /\ UNCHANGED <<buckets, dbStats, mappings, objects, backend, sessions, uploads,
                   strategy, rrCounter, ring, pc, req, nreq, nrep, lastStatus,
                   managerVars, clock, performed,
                   gatewayVars>>

\* the process ends
GatewayStop ==
    /\ archiver = "up"
    /\ archiver' = "down"
    /\ UNCHANGED <<buckets, dbStats, mappings, objects, backend, sessions, uploads,
                   strategy, rrCounter, ring, pc, req, nreq, nrep, lastStatus,
                   managerVars, clock, monthlyStats, lastArchivedDate, performed,
                   gatewayVars>>

\* MonthlyArchiver.checkAndArchive, on the hourly ticker
checkAndArchive ==
    /\ archiver = "up"
    /\ LET lastMonth == clock.month - 1
           due == clock.first /\ lastArchivedDate # lastMonth
           rows == IF due THEN ArchiveMonthlyStats(monthlyStats, dbStats, lastMonth)
                   ELSE monthlyStats
       IN /\ lastArchivedDate' = IF due THEN lastMonth ELSE lastArchivedDate
          /\ monthlyStats' = ArchiveMonthlyStats(rows, dbStats, clock.month)
    /\ UNCHANGED <<buckets, dbStats, mappings, objects, backend, sessions, uploads,
                   strategy, rrCounter, ring, pc, req, nreq, nrep, lastStatus,
                   managerVars, clock, archiver, performed,
                   gatewayVars>>

\* a handler of the running gateway persists a class-A operation
ArchivedOperation ==
    /\ archiver = "up"
    /\ nreq < MaxRequests
    /\ nreq' = nreq + 1
    /\ \E b \in RealBuckets :
          /\ dbStats' = IncrementBucketOperation(dbStats, b, "A")
          /\ performed' = [performed EXCEPT ![<<b, clock.month>>] = @ + 1]
    /\ UNCHANGED <<buckets, mappings, objects, backend, sessions, uploads,
                   strategy, rrCounter, ring, pc, req, nrep, lastStatus,
                   managerVars, clock, monthlyStats, lastArchivedDate, archiver,
                   gatewayVars>>

\* time passes: the first day of a month ends, or the month ends
ClockTick ==
    /\ IF clock.first
       THEN clock' = [clock EXCEPT !.first = FALSE]
       ELSE /\ clock.month < MaxMonths
            /\ clock' = [month |-> clock.month + 1, first |-> TRUE]
    /\ UNCHANGED <<buckets, dbStats, mappings, objects, backend, sessions, uploads,
                   strategy, rrCounter, ring, pc, req, nreq, nrep, lastStatus,
                   managerVars, monthlyStats, lastArchivedDate, archiver, performed,
                   gatewayVars>>

\* a new installation before its first start, on any day of month 1
InitArchive ==
    /\ buckets = [b \in Buckets |-> NewBucketInfo]
    /\ dbStats = [b \in Buckets |-> [A |-> 0, B |-> 0]]
    /\ mappings = <<>>
    /\ objects = [k \in Keys |-> NoObject]
    /\ backend = [bk \in RealBuckets \X Keys |-> NoStored]
    /\ sessions = [u \in UploadIds |-> NoSession]
    /\ uploads = [u \in UploadIds |-> NoUpload]
    /\ strategy = "least-space"
    /\ rrCounter = 0
    /\ ring = <<>>
    /\ pc = [p \in Procs |-> "idle"]
    /\ req = [p \in Procs |-> IdleReq]
    /\ nreq = 0
    /\ nrep = 0
    /\ lastStatus = [b \in RealBuckets |-> NoStatus]
    /\ InitManager
    /\ clock \in [month : {1}, first : BOOLEAN]
    /\ monthlyStats = [bm \in Buckets \X Months |-> NoRow]
    /\ lastArchivedDate = 0
    /\ archiver = "down"
    /\ performed = [bm \in Buckets \X Months |-> 0]
    /\ InitGateway

NextArchive ==
    \/ ArchiverStart
    \/ GatewayStop
    \/ checkAndArchive
    \/ ArchivedOperation
    \/ ClockTick

SpecArchive == InitArchive /\ [][NextArchive]_vars

\* C24: whenever the archive writes the row of a bucket for the month that
\* has just ended, at the start of the archiver or on its ticker, the row
\* holds the number of class-A operations performed on the bucket during
\* that month
C24_ArchiveRowIsMonthsOperations ==
    [][\A b \in RealBuckets, m \in 1..MaxMonths :
          (m = clock.month - 1 /\ monthlyStats'[<<b, m>>] # monthlyStats[<<b, m>>])
          => monthlyStats'[<<b, m>>] = performed[<<b, m>>]]_vars

\* C25: when the archive has run, at the start of the archiver or on its
\* ticker, the rows of every bucket add up to the bucket's cumulative
\* class-A count
C25_ArchiveSumsToCumulative ==
    [][monthlyStats' # monthlyStats
       => \A b \in Buckets : ArchivedUpTo(monthlyStats', b, MaxMonths) = dbStats[b].A]_vars

(***************************************************************************)
(* The session cleaner: the storage service's session operations, the      *)
(* clock and the hourly job of startSessionCleaner.                        *)
(***************************************************************************)
SessionStatuses == {"pending", "completed", "aborted"}

\* Service.CleanExpiredSessions without its status condition
CleanExpiredSessions_AnyStatus(ss, exp, t) ==
    [u \in UploadIds |-> IF ss[u] # NoSession /\ exp[u] < t THEN NoSession ELSE ss[u]]

\* Service.CleanExpiredSessions:
\* DELETE ... WHERE expires_at < now AND status = 'pending'
CleanExpiredSessions(ss, exp, t) ==
    [u \in UploadIds |->
        IF ss[u] # NoSession /\ exp[u] < t /\ ss[u].status = "pending"
        THEN NoSession ELSE ss[u]]

\* handleMultipartUpload's RecordUploadSession for a fresh upload id
SessionCreate ==
    \E u \in UploadIds, k \in Keys, b \in RealBuckets :
       /\ sessions[u] = NoSession
       /\ expiresAt[u] = 0
       /\ sessions' = RecordUploadSession(sessions, u, k, b)
       /\ expiresAt' = BeforeCreate(expiresAt, u, now)
       /\ UNCHANGED now

\* UpdateUploadSession as the part, complete and abort handlers call it
SessionUpdate ==
    \E u \in UploadIds, st \in SessionStatuses :
       /\ sessions[u] # NoSession
       /\ sessions' = UpdateUploadSession(sessions, u,
                          IF st = "aborted" THEN 0 ELSE 1, st)
       /\ UNCHANGED <<now, expiresAt>>

\* time passes
HoursPass ==
    /\ now < MaxHalfDays * (SessionLifetime \div 2)
    /\ now' = now + SessionLifetime \div 2
    /\ UNCHANGED <<sessions, expiresAt>>

\* startSessionCleaner: the ticker fires
SessionCleanerTick ==
    /\ sessions' = CleanExpiredSessions(sessions, expiresAt, now)
    /\ UNCHANGED <<now, expiresAt>>

NextClean ==
    /\ \/ SessionCreate
       \/ SessionUpdate
       \/ HoursPass
       \/ SessionCleanerTick
    /\ UNCHANGED <<buckets, dbStats, mappings, objects, backend, uploads,
                   strategy, rrCounter, ring, pc, req, nreq, nrep, lastStatus,
                   managerVars, archiveVars, removed, watchVars, stopVars>>

SpecClean == Init /\ [][NextClean]_vars

\* C31: a session row disappears only if it was pending with expires-at < now
\* (never a completed or aborted one, never an unexpired pending one), and
\* after a run of the cleaner no pending session with expires-at < now is left
C31_CleanerDeletesExpiredPending ==
    /\ [][\A u \in UploadIds :
            sessions[u] # NoSession /\ sessions'[u] = NoSession
               => sessions[u].status = "pending" /\ expiresAt[u] < now]_vars
    /\ [][SessionCleanerTick =>
            \A u \in UploadIds :
               sessions[u] # NoSession /\ sessions[u].status = "pending"
                  /\ expiresAt[u] < now => sessions'[u] = NoSession]_vars

\* the cleaner has deleted an expired pending session and kept, in the same
\* store, an expired completed one and a pending one that has not expired
C31_Witness ==
    \E u, v \in UploadIds :
       /\ sessions[u] = NoSession /\ expiresAt[u] > 0 /\ expiresAt[u] < now
       /\ sessions[v] # NoSession
       /\ \/ sessions[v].status = "completed" /\ expiresAt[v] < now
          \/ sessions[v].status = "pending" /\ expiresAt[v] >= now

(***************************************************************************)
(* Multipart initiate and abort on a key that already holds an object:     *)
(* k1 was stored on b1 before, its mapping and its object row exist.       *)
(***************************************************************************)
StoredKey == "k1"

InitStored ==
    /\ buckets = [b \in Buckets |->
                    IF b = "b1" THEN [NewBucketInfo EXCEPT !.UsedSize = 1]
                    ELSE NewBucketInfo]
    /\ dbStats = [b \in Buckets |-> [A |-> 0, B |-> 0]]
    /\ mappings = <<Mapping("v1", StoredKey, "b1", StoredKey)>>
    /\ objects = [k \in Keys |-> IF k = StoredKey THEN [bucket |-> "b1", size |-> 1]
                                 ELSE NoObject]
    /\ backend = [bk \in RealBuckets \X Keys |->
                    IF bk = <<"b1", StoredKey>> THEN [payload |-> MaxRequests + 1, size |-> 1]
                    ELSE NoStored]
    /\ sessions = [u \in UploadIds |-> NoSession]
    /\ uploads = [u \in UploadIds |-> NoUpload]
    /\ strategy = "least-space"
    /\ rrCounter = 0
    /\ ring = <<>>
    /\ pc = [p \in Procs |-> "idle"]
    /\ req = [p \in Procs |-> IdleReq]
    /\ nreq = 0
    /\ nrep = 0
    /\ lastStatus = [b \in RealBuckets |-> NoStatus]
    /\ InitManager
    /\ InitArchiver
    /\ InitGateway

\* an initiate or an abort request arrives
StartInitiateOrAbort(p) ==
    \E b \in ReqBuckets, k \in Keys :
        \/ NewMultipartRequest(p, "INITIATE", b, k, 0, 0)
        \/ \E u \in UploadIds : NewMultipartRequest(p, "ABORT", b, k, 0, u)

NextAbort ==
    \E p \in Procs :
       \/ StartInitiateOrAbort(p)
       \/ InitiateSelect(p)
       \/ InitiateCreate(p)
       \/ InitiateBackend(p)
       \/ AbortLookup(p)
       \/ AbortBackend(p)
       \/ AbortSession(p)

SpecAbort == InitStored /\ [][NextAbort]_vars

\* handleGetObject would find the key: a mapping row exists and the real
\* object its first row names is stored
Reachable(ms, be, vb, k) ==
    /\ HasMapping(ms, vb, k)
    /\ be[<<GetVirtualBucketMapping(ms, vb, k).rb,
            GetVirtualBucketMapping(ms, vb, k).rk>>] # NoStored

\* C32: when an upload that was initiated for a key holding a completed
\* object is aborted, the key's mapping to the existing object is still
\* present and a GET of the key still finds the object
C32_AbortKeepsExistingObject ==
    [][\A p \in Procs :
          /\ pc[p] = "mpa_session" /\ pc'[p] = "done"
          /\ uploads[req[p].upload] # NoUpload
          /\ uploads[req[p].upload].key = req[p].key
          /\ Reachable(mappings, backend, req[p].bucket, req[p].key)
          => Reachable(mappings', backend', req[p].bucket, req[p].key)]_vars

\* the real object a mapping row names
RealObject(m) == <<m.rb, m.rk>>

\* C33: in every reachable state each mapping refers to a real object the
\* gateway has not deleted: no mapping row names a real object that
\* handleDeleteObject removed from its backend and that is not stored again
C33_NoMappingToDeletedObject ==
    \A i \in 1..Len(mappings) :
       ~(RealObject(mappings[i]) \in removed /\ backend[RealObject(mappings[i])] = NoStored)

\* the bytes real backend b stores under the keys of S
RECURSIVE StoredBytes(_, _, _)
StoredBytes(be, b, S) ==
    IF S = {} THEN 0
    ELSE LET k == CHOOSE x \in S : TRUE IN
         be[<<b, k>>].size + StoredBytes(be, b, S \ {k})

\* C34: a request handler's step keeps each backend's used-bytes equal to
\* the total size of the objects stored on it: an overwriting PUT does not
\* count the old size again and a DELETE gives the removed bytes back
C34_UsedBytesIsStoredBytes ==
    [][\A b \in RealBuckets :
          /\ \E p \in Procs : Stepped(p)
          /\ buckets[b].UsedSize = StoredBytes(backend, b, Keys)
          => buckets'[b].UsedSize = StoredBytes(backend', b, Keys)]_vars

\* C35: a PUT on a key without a mapping that fails at the backend leaves
\* no mapping row for the key behind
C35_FailedPutLeavesNoMapping ==
    [][\A p \in Procs :
          /\ pc[p] = "put_upload" /\ pc'[p] = "done"
          /\ req[p].picked
          /\ req'[p].code # 200
          => ~HasMapping(mappings', req[p].bucket, req[p].key)]_vars

(***************************************************************************)
(* Reloads that change a backend's limits only.  "c3" is "c0" with the     *)
(* max_size of b1 lowered; capacity is read from each entry's own          *)
(* BucketInfo.Config.                                                      *)
(***************************************************************************)
LimitConfigs == {"c0", "c3"}

\* BucketConfig.MaxSizeBytes of b in configuration c
ConfigMaxSizeBytes(c, b) == IF c = "c3" /\ b = "b1" THEN 1 ELSE MaxSizeBytes(b)

\* BucketInfo.GetAvailableSpace, reading b.Config.MaxSizeBytes
AvailableSpaceOf(ic, bs, b) ==
    IF ConfigMaxSizeBytes(ic[b], b) = 0 THEN UnlimitedSpace
    ELSE ConfigMaxSizeBytes(ic[b], b) - bs[b].UsedSize

\* Manager.GetAvailableBuckets and selectOnce's space filter, reading each
\* entry's b.Config
CapacityFiltered(ic, tbl, bs, size) ==
    {b \in tbl : /\ ~Virtual(b)
                 /\ bs[b].Available
                 /\ \/ ConfigMaxSizeBytes(ic[b], b) = 0
                    \/ bs[b].UsedSize < ConfigMaxSizeBytes(ic[b], b)
                 /\ AvailableSpaceOf(ic, bs, b) >= size}

\* Manager.UpdateConfig with a configuration of LimitConfigs
UpdateConfigLimits == \E new \in LimitConfigs : UpdateConfigTo(new)

\* a PUT of a new key: SelectBucket(key, size) with the least-space
\* strategy and, after the upload, UpdateUsedSize on the target
PutUnderConfig(p) ==
    /\ pc[p] \in {"idle", "done"}
    /\ nreq < MaxRequests
    /\ nreq' = nreq + 1
    /\ \E k \in Keys, size \in Sizes :
          LET cands == CapacityFiltered(infoConfig, table, buckets, size)
              r == [IdleReq EXCEPT !.op = "PUT", !.bucket = "v1", !.key = k, !.size = size]
          IN IF cands = {}
             THEN Goto(p, [r EXCEPT !.code = 507], "done") /\ UNCHANGED buckets
             ELSE \E b \in cands :
                     /\ \A c \in cands : AvailableSpaceOf(infoConfig, buckets, c)
                                            <= AvailableSpaceOf(infoConfig, buckets, b)
                     /\ buckets' = UpdateUsedSize(buckets, b, size)
                     /\ Goto(p, [r EXCEPT !.target = b, !.picked = TRUE,
                                          !.code = 200], "done")
    /\ UNCHANGED <<dbStats, mappings, objects, backend, sessions, uploads,
                   strategy, rrCounter, ring, nrep, lastStatus, managerVars,
                   archiveVars, gatewayVars>>

NextReconf ==
    \/ UpdateConfigLimits
    \/ UpdateConfigLoad
    \/ UpdateConfigStart
    \/ \E p \in Procs : PutUnderConfig(p)

SpecReconf == Init /\ [][NextReconf]_vars

\* C36: after a reload that changed only max_size has finished, the
\* capacity filter decides with the new values: a PUT is placed only on a
\* backend that has the space under the active configuration
C36_ReloadAppliesNewLimits ==
    [][\A p \in Procs :
          /\ upd.pc = "idle" /\ ~upd.err
          /\ Stepped(p) /\ req'[p].picked
          => ConfigMaxSizeBytes(config, req'[p].target) - buckets[req'[p].target].UsedSize
                >= req'[p].size]_vars

\* C37: a consistent-hash select searches the ring it built from its own
\* candidate list, whatever other selects do meanwhile, and so returns a
\* backend of its own list
C37_SelectSearchesOwnRing ==
    [][\A p \in Procs :
          pc[p] = "pick_lookup" /\ pc'[p] = "done"
          => /\ Range(ring) = Range(req[p].cands)
             /\ req'[p].target \in Range(req[p].cands)]_vars

\* C38: with concurrent recordings on one backend the in-memory counter
\* never goes back to an older value, and once no recording is in flight it
\* is not behind the persisted counter
C38_CounterNotOverwrittenByOlder ==
    /\ [][\A b \in RealBuckets :
            /\ buckets'[b].operationCountA >= buckets[b].operationCountA
            /\ buckets'[b].operationCountB >= buckets[b].operationCountB]_vars
    /\ []((\A p \in Procs : pc[p] # "quota_set")
            => \A b \in RealBuckets, cat \in Categories :
                  OperationCount(b, cat) >= PersistedCount(dbStats, b, cat))

(***************************************************************************)
(* Configuration reload: config.Manager notices an edit through fsnotify   *)
(* and through polling, each in its own goroutine; reloadConfig loads the  *)
(* file, stores it and starts a goroutine that runs the callback of main,  *)
(* which updates the registry, the balancer and the handler in turn.       *)
(***************************************************************************)
\* everything the reload and the shutdown leave alone
servingVars == <<buckets, dbStats, mappings, objects, backend, sessions, uploads,
                 strategy, rrCounter, ring, pc, req, nreq, nrep, lastStatus,
                 config, table, upd, infoConfig,
                 clock, monthlyStats, lastArchivedDate, performed,
                 now, expiresAt, removed>>

\* the operator writes the file; the goroutines below run until main returns
FileEdit ==
    /\ mainPc # "exited"
    /\ file < MaxEdits
    /\ file' = file + 1
    /\ fsEvents' = fsEvents + 1
    /\ UNCHANGED <<lastModTime, fileConfig, reloader, callbacks, applied>>
    /\ UNCHANGED <<servingVars, monitors, archiver, stopVars>>

\* watchConfig: a write event arrives, lastModTime is set from the file and
\* reloadConfig begins (its sleep)
WatchEvent ==
    /\ watcher = "open"
    /\ fsEvents > 0
    /\ reloader["fsnotify"].pc = "idle"
    /\ fsEvents' = fsEvents - 1
    /\ lastModTime' = file
    /\ reloader' = [reloader EXCEPT !["fsnotify"].pc = "sleep"]
    /\ UNCHANGED <<file, fileConfig, callbacks, applied>>
    /\ UNCHANGED <<servingVars, monitors, archiver, stopVars>>

\* pollConfig: the ticker fires and the file is newer than lastModTime
PollTick ==
    /\ watcher = "open"
    /\ reloader["poll"].pc = "idle"
    /\ file > lastModTime
    /\ lastModTime' = file
    /\ reloader' = [reloader EXCEPT !["poll"].pc = "sleep"]
    /\ UNCHANGED <<file, fsEvents, fileConfig, callbacks, applied>>
    /\ UNCHANGED <<servingVars, monitors, archiver, stopVars>>

\* reloadConfig: after the sleep, Load(m.configFile)
ReloadLoad(w) ==
    /\ mainPc # "exited"
    /\ reloader[w].pc = "sleep"
    /\ reloader' = [reloader EXCEPT ![w] = [pc |-> "loaded", cfg |-> file]]
    /\ UNCHANGED <<file, fsEvents, lastModTime, fileConfig, callbacks, applied>>
    /\ UNCHANGED <<servingVars, monitors, archiver, stopVars>>

\* reloadConfig: m.config = newConfig under the mutex, then go func() { the
\* callbacks of main with newConfig }
ReloadPublish(w) ==
    /\ mainPc # "exited"
    /\ reloader[w].pc = "loaded"
    /\ fileConfig' = reloader[w].cfg
    /\ \E i \in CallbackIds :
          /\ callbacks[i] = NoCallback
          /\ \A j \in CallbackIds : j < i => callbacks[j] # NoCallback
          /\ callbacks' = [callbacks EXCEPT ![i] = [cfg |-> reloader[w].cfg,
                                                    pc |-> "manager"]]
    /\ reloader' = [reloader EXCEPT ![w].pc = "idle"]
    /\ UNCHANGED <<file, fsEvents, lastModTime, applied>>
    /\ UNCHANGED <<servingVars, monitors, archiver, stopVars>>

\* the callback: bucketManager.UpdateConfig(newConfig), which also reads
\* the operation counts from the store
CallbackManager(i) ==
    /\ mainPc # "exited"
    /\ callbacks[i].pc = "manager"
    /\ applied' = [applied EXCEPT !.manager = callbacks[i].cfg]
    /\ callbacks' = [callbacks EXCEPT ![i].pc = "balancer"]
    /\ UNCHANGED <<file, fsEvents, lastModTime, fileConfig, reloader>>
    /\ UNCHANGED <<servingVars, monitors, archiver, stopVars>>

\* the callback: lb.UpdateStrategy(newConfig.Balancer.Strategy)
CallbackBalancer(i) ==
    /\ mainPc # "exited"
    /\ callbacks[i].pc = "balancer"
    /\ applied' = [applied EXCEPT !.balancer = callbacks[i].cfg]
    /\ callbacks' = [callbacks EXCEPT ![i].pc = "api"]
    /\ UNCHANGED <<file, fsEvents, lastModTime, fileConfig, reloader>>
    /\ UNCHANGED <<servingVars, monitors, archiver, stopVars>>

\* the callback: s3Handler.UpdateS3APIConfig(&newConfig.S3API), and its end
CallbackApi(i) ==
    /\ mainPc # "exited"
    /\ callbacks[i].pc = "api"
    /\ applied' = [applied EXCEPT !.api = callbacks[i].cfg]
    /\ callbacks' = [callbacks EXCEPT ![i].pc = "done"]
    /\ UNCHANGED <<file, fsEvents, lastModTime, fileConfig, reloader>>
    /\ UNCHANGED <<servingVars, monitors, archiver, stopVars>>

NextWatch ==
    \/ FileEdit
    \/ WatchEvent
    \/ PollTick
    \/ \E w \in Watchers : ReloadLoad(w) \/ ReloadPublish(w)
    \/ \E i \in CallbackIds : CallbackManager(i) \/ CallbackBalancer(i) \/ CallbackApi(i)

SpecWatch == Init /\ [][NextWatch]_vars

\* the callbacks that have started and not ended
InFlight == {i \in CallbackIds : callbacks[i].pc \in {"manager", "balancer", "api"}}

\* every edit has been noticed and every reload and callback has ended
Settled ==
    /\ fsEvents = 0
    /\ lastModTime = file
    /\ \A w \in Watchers : reloader[w].pc = "idle"
    /\ InFlight = {}

\* C39: the component updates of two reloads are applied one at a time,
\* and once everything has settled the registry, the balancer and the
\* handler hold the latest configuration
C39_ReloadsAppliedInOrder ==
    /\ Cardinality(InFlight) <= 1
    /\ Settled => /\ applied.manager = file
                  /\ applied.balancer = file
                  /\ applied.api = file

(***************************************************************************)
(* Shutdown: main after the signal, statement by statement, then its       *)
(* deferred calls in reverse order of their registration.                  *)
(***************************************************************************)
MainStep(from, to) ==
    /\ mainPc = from
    /\ mainPc' = to

\* <-sigChan
ShutdownSignal ==
    /\ MainStep("running", "shutdown")
    /\ UNCHANGED <<http, store, watcher, monitors, archiver, servingVars, watchVars>>

\* srv.Shutdown(shutdownCtx), at most 10 seconds
ServerShutdown ==
    /\ MainStep("shutdown", "stop_manager")
    /\ http' = "closed"
    /\ UNCHANGED <<store, watcher, monitors, archiver, servingVars, watchVars>>

\* bucketManager.Stop() and cancel()
ManagerStop ==
    /\ MainStep("stop_manager", "stop_archiver")
    /\ monitors' = "stopped"
    /\ UNCHANGED <<http, store, watcher, archiver, servingVars, watchVars>>

\* deferred: monthlyArchiver.Stop()
ArchiverStop ==
    /\ MainStep("stop_archiver", "close_store")
    /\ archiver' = "down"
    /\ UNCHANGED <<http, store, watcher, monitors, servingVars, watchVars>>

\* deferred: database.Close()
DatabaseClose ==
    /\ MainStep("close_store", "close_watcher")
    /\ store' = "closed"
    /\ UNCHANGED <<http, watcher, monitors, archiver, servingVars, watchVars>>

\* deferred, registered first and so run last: configManager.Close()
ConfigManagerClose ==
    /\ MainStep("close_watcher", "exited")
    /\ watcher' = "closed"
    /\ UNCHANGED <<http, store, monitors, archiver, servingVars, watchVars>>

NextStop ==
    \/ ShutdownSignal
    \/ ServerShutdown
    \/ ManagerStop
    \/ ArchiverStop
    \/ DatabaseClose
    \/ ConfigManagerClose
    \/ NextWatch

SpecStop == Init /\ [][NextStop]_vars

\* C40: the store is closed last, after the monitors were told to stop, the
\* HTTP server was shut down and the config watcher was closed, and no
\* reload callback updates the registry against a closed store
C40_StoreClosedLast ==
    /\ [](store = "closed"
            => monitors = "stopped" /\ http = "closed" /\ watcher = "closed")
    /\ [][\A i \in CallbackIds :
            callbacks[i].pc = "manager" /\ callbacks'[i].pc = "balancer"
            => store = "open"]_vars

====
